---- MODULE Spec2Model ----
(***************************************************************************)
(* Verification model of the SiliconAI validator's hit/particle data       *)
(* pipeline: the exporter (vertex pseudo-hits, quantization, sequence      *)
(* building), the importer/validator preprocessing, the hit-level          *)
(* comparison and the reconstruction-performance comparison.               *)
(***************************************************************************)
EXTENDS Integers, Sequences, FiniteSets, TLC

(***************************************************************************)
(* Binary floating point.  The quantization lambdas run on IEEE-754        *)
(* numbers: pandas hands each element to the lambda as a Python float      *)
(* (binary64) and Series.round works in the column's own dtype (float32    *)
(* for the columns read from the simulation output).  A finite float is    *)
(* [neg, bits, exp]: bits is the significand, most significant bit first,  *)
(* with first and last bit 1 (<<>> for zero); exp is the power of two of   *)
(* the last bit.  The form is canonical: equal values are equal records.   *)
(***************************************************************************)
Float32Prec == 24
Float64Prec == 53

Zero == [neg |-> FALSE, bits |-> <<>>, exp |-> 0]

\* the operators below work on bit sequences
Ones(b) == {i \in 1..Len(b) : b[i] = 1}

MinOf(S) == CHOOSE i \in S : \A j \in S : i <= j

MaxOf(S) == CHOOSE i \in S : \A j \in S : j <= i

StripLead(b) ==
    IF Ones(b) = {} THEN <<>> ELSE SubSeq(b, MinOf(Ones(b)), Len(b))

TrailZeros(b) == IF Ones(b) = {} THEN 0 ELSE Len(b) - MaxOf(Ones(b))

MkFloat(neg, b, e) ==
    LET s == StripLead(b)
        t == TrailZeros(s)
    IN  IF s = <<>> THEN Zero
        ELSE [neg |-> neg, bits |-> SubSeq(s, 1, Len(s) - t), exp |-> e + t]

RECURSIVE BitsOfNat(_)
BitsOfNat(n) == IF n = 0 THEN <<>> ELSE Append(BitsOfNat(n \div 2), n % 2)

RECURSIVE Pow2(_)
Pow2(n) == IF n = 0 THEN 1 ELSE 2 * Pow2(n - 1)

RECURSIVE NatOfBits(_)
NatOfBits(b) ==
    IF Len(b) = 0 THEN 0
    ELSE IF Len(b) = 1 THEN b[1]
    ELSE LET h == Len(b) \div 2
         IN  NatOfBits(SubSeq(b, 1, h)) * Pow2(Len(b) - h)
                 + NatOfBits(SubSeq(b, h + 1, Len(b)))

\* b + 1
IncBits(b) ==
    LET zeros == {i \in 1..Len(b) : b[i] = 0}
    IN  IF zeros = {} THEN <<1>> \o [i \in 1..Len(b) |-> 0]
        ELSE [i \in 1..Len(b) |->
                 IF i < MaxOf(zeros) THEN b[i]
                 ELSE IF i = MaxOf(zeros) THEN 1 ELSE 0]

\* round-to-nearest, ties-to-even, of the significand b (no leading zero)
\* to p bits; sticky tells that nonzero bits follow b
RoundBits(p, neg, b, e, sticky) ==
    IF Len(b) <= p THEN MkFloat(neg, b, e)
    ELSE LET keep == SubSeq(b, 1, p)
             rest == SubSeq(b, p + 1, Len(b))
             more == sticky \/ \E i \in 2..Len(rest) : rest[i] = 1
             up   == rest[1] = 1 /\ (more \/ keep[p] = 1)
         IN  MkFloat(neg, IF up THEN IncBits(keep) ELSE keep, e + Len(rest))

\* the natural n < 2^w as exactly w bits
PadBits(n, w) == [i \in 1..w |-> (n \div Pow2(w - i)) % 2]

\* b * k + c, ten bits at a time from the low end
RECURSIVE MulBits(_, _, _)
MulBits(b, k, c) ==
    IF Len(b) = 0 THEN BitsOfNat(c)
    ELSE LET w == IF Len(b) < 10 THEN Len(b) ELSE 10
             t == NatOfBits(SubSeq(b, Len(b) - w + 1, Len(b))) * k + c
         IN  MulBits(SubSeq(b, 1, Len(b) - w), k, t \div Pow2(w))
                 \o PadBits(t % Pow2(w), w)

\* long division of b, with r < d carried in, by d, ten bits at a time
\* from the high end: the quotient bits and the remainder
RECURSIVE DivRem(_, _, _)
DivRem(b, d, r) ==
    IF Len(b) = 0 THEN [q |-> <<>>, r |-> r]
    ELSE LET w    == IF Len(b) < 10 THEN Len(b) ELSE 10
             t    == r * Pow2(w) + NatOfBits(SubSeq(b, 1, w))
             rest == DivRem(SubSeq(b, w + 1, Len(b)), d, t % d)
         IN  [q |-> PadBits(t \div d, w) \o rest.q, r |-> rest.r]

\* x * k for a small natural k, rounded to p bits
FlMul(x, k, p) ==
    IF x.bits = <<>> THEN Zero
    ELSE RoundBits(p, x.neg, StripLead(MulBits(x.bits, k, 0)), x.exp, FALSE)

\* x / d for a small natural d, rounded to p bits
FlDiv(x, d, p) ==
    IF x.bits = <<>> THEN Zero
    ELSE LET pad == p + 12
             qr  == DivRem(x.bits \o [i \in 1..pad |-> 0], d, 0)
         IN  RoundBits(p, x.neg, StripLead(qr.q), x.exp - pad, qr.r # 0)

FlOfInt(n) == MkFloat(n < 0, BitsOfNat(IF n < 0 THEN -n ELSE n), 0)

FlIsInteger(x) == x.bits = <<>> \/ x.exp >= 0

\* |x| rounded toward zero, as an integer
FlAbsTrunc(x) ==
    LET nint == Len(x.bits) + x.exp
    IN  IF x.bits = <<>> \/ nint <= 0 THEN 0
        ELSE IF x.exp >= 0 THEN NatOfBits(x.bits) * Pow2(x.exp)
        ELSE NatOfBits(SubSeq(x.bits, 1, nint))

FlSign(x) == IF x.neg THEN -1 ELSE 1

\* np.trunc, np.floor, np.ceil, np.rint (ties to even): the integer value
FlTrunc(x) == FlSign(x) * FlAbsTrunc(x)
FlFloor(x) == IF x.neg /\ ~FlIsInteger(x) THEN FlTrunc(x) - 1 ELSE FlTrunc(x)
FlCeil(x)  == IF ~x.neg /\ ~FlIsInteger(x) THEN FlTrunc(x) + 1 ELSE FlTrunc(x)
FlRint(x)  ==
    LET nint == Len(x.bits) + x.exp
        t    == FlAbsTrunc(x)
        up   == /\ ~FlIsInteger(x)
                /\ nint >= 0
                /\ x.bits[nint + 1] = 1
                /\ (Len(x.bits) > nint + 1 \/ t % 2 = 1)
    IN  FlSign(x) * (IF up THEN t + 1 ELSE t)

FlPositive(x) == x.bits # <<>> /\ ~x.neg

\* |a| < |b|
FlMagLess(a, b) ==
    LET la == Len(a.bits) + a.exp
        lb == Len(b.bits) + b.exp
        n  == IF Len(a.bits) < Len(b.bits) THEN Len(b.bits) ELSE Len(a.bits)
        A(i) == IF i <= Len(a.bits) THEN a.bits[i] ELSE 0
        B(i) == IF i <= Len(b.bits) THEN b.bits[i] ELSE 0
    IN  IF b.bits = <<>> THEN FALSE
        ELSE IF a.bits = <<>> THEN TRUE
        ELSE IF la # lb THEN la < lb
        ELSE \E i \in 1..n : /\ A(i) < B(i)
                             /\ \A k \in 1..(i - 1) : A(k) = B(k)

\* one step of the long division by a divisor of up to 24 bits: the six
\* bits of b from position i on are brought down
DivStepWide(b, d, i, q, r) ==
    LET w == IF Len(b) - i + 1 < 6 THEN Len(b) - i + 1 ELSE 6
        t == r * Pow2(w) + NatOfBits(SubSeq(b, i, i + w - 1))
    IN  [q |-> q \o PadBits(t \div d, w), r |-> t % d]

\* the long division of b from position i on, with the quotient q and the
\* remainder r so far
RECURSIVE DivRemFrom(_, _, _, _, _)
DivRemFrom(b, d, i, q, r) ==
    IF i > Len(b) THEN [q |-> q, r |-> r]
    ELSE CHOOSE res \in {DivRemFrom(b, d, i + 6, s.q, s.r) :
                             s \in {DivStepWide(b, d, i, q, r)}} : TRUE

\* x / y of two floats of at most 24 significant bits, y # 0, rounded to
\* p bits
FlDivFl(x, y, p) ==
    IF x.bits = <<>> THEN Zero
    ELSE LET pad == p + 30
             qr  == DivRemFrom(x.bits \o [i \in 1..pad |-> 0],
                              NatOfBits(y.bits), 1, <<>>, 0)
         IN  RoundBits(p, x.neg # y.neg, StripLead(qr.q),
                       x.exp - pad - y.exp, qr.r # 0)

(***************************************************************************)
(* RecordCodec: the two quantization rules of the exporter.                *)
(***************************************************************************)
\* Series.round(2) in the column's dtype: multiply by 100, rint, divide
Round2(x, p) == FlDiv(FlOfInt(FlRint(FlMul(x, 100, p))), 100, p)

\* vertex rows: .round(2).map(lambda x: np.trunc(100 * x) / 100)
QuantizeVertex(x, p) ==
    FlDiv(FlOfInt(FlTrunc(FlMul(Round2(x, p), 100, Float64Prec))),
          100, Float64Prec)

\* the quantization of the hit rows to one decimal
QuantizeHitTenths(x) ==
    LET y == FlMul(x, 10, Float64Prec)
        k == IF FlPositive(x) THEN FlFloor(y) ELSE FlCeil(y)
    IN  FlDiv(FlOfInt(FlTrunc(FlOfInt(k))), 10, Float64Prec)

\* hit rows: .map(lambda x: np.trunc(np.floor(x * 100) if x > 0
\*                                    else np.ceil(x * 100)) / 100)
QuantizeHit(x) ==
    LET y == FlMul(x, 100, Float64Prec)
        k == IF FlPositive(x) THEN FlFloor(y) ELSE FlCeil(y)
    IN  FlDiv(FlOfInt(FlTrunc(FlOfInt(k))), 100, Float64Prec)

\* the float32 value nearest to n/1000 (a column element on the 0.001 grid)
GridValue(n) == FlDiv(FlOfInt(n), 1000, Float32Prec)


(***************************************************************************)
(* Bounds of the model.                                                    *)
(***************************************************************************)
MaxGrid == 600
MaxEvents == 2
MaxHits == 3
MaxRows == 3
MaxLabel == 2
MaxEventId == 2
MaxBins == 4
MaxBatch == 3
MaxMissing == 1
MaxVariants == 2
MaxImports == 3
MaxCalls == 3
MaxCoordinate == 5

(***************************************************************************)
(* State.                                                                  *)
(*   quantization of one column element: qin and the results of the two   *)
(*   rules, applied once and twice, and the importer's working value qlx; *)
(*   exporter (export_hits_single): the particle and hit inputs and the   *)
(*   frames the function builds, named as in the code.                     *)
(***************************************************************************)
VARIABLES qin, qvertex, qvertex2, qhit, qhit2, qlx, qpc,
          particles, hits, particles_data_vertex, particles_data_vertex_end,
          hits_data, cat_data, particles_data_common, output_data,
          fixed_length, wanted_length, metadata, hdf, xpc

quantVars == <<qin, qvertex, qvertex2, qhit, qhit2, qlx, qpc>>

exportVars == <<particles, hits, particles_data_vertex,
                particles_data_vertex_end, hits_data, cat_data,
                particles_data_common, output_data, fixed_length,
                wanted_length, metadata, hdf, xpc>>

(***************************************************************************)
(*   preprocess_input (importing.py and validation.py): the stored table, *)
(*   the module whose function runs, the frame it builds, the result of   *)
(*   local_to_global_vec, the tx column and the exception that left it.    *)
(***************************************************************************)
VARIABLES store, module, data, global_data, tx, ipc, iraised

importVars == <<store, module, data, global_data, tx, ipc, iraised>>

(***************************************************************************)
(*   validate_hits: the two tables, the event argument and the locals of  *)
(*   the function.                                                         *)
(***************************************************************************)
VARIABLES reference_data, generated_data, event, size, pdf,
          reference_hits, generated_hits, diff_hits, hpc, hraised

hitsVars == <<reference_data, generated_data, event, size, pdf,
              reference_hits, generated_hits, diff_hits, hpc, hraised>>

(***************************************************************************)
(*   validate_reconstruction_performance, one efficiency variable: the    *)
(*   histograms read from the two files and the locals of the loop body.   *)
(***************************************************************************)
VARIABLES reference_eff_passed, reference_eff_total,
          generated_eff_passed, generated_eff_total,
          indices, indices_bins, reference_passed, reference_total,
          generated_passed, generated_total, bins, bin_centers, bin_errors,
          reference_efficiency, generated_efficiency, rpc, rraised

recoVars == <<reference_eff_passed, reference_eff_total,
              generated_eff_passed, generated_eff_total,
              indices, indices_bins, reference_passed, reference_total,
              generated_passed, generated_total, bins, bin_centers,
              bin_errors, reference_efficiency, generated_efficiency,
              rpc, rraised>>

(***************************************************************************)
(*   import_results: the two stored tables of the file, the two frames    *)
(*   preprocess_input returned, the output files written and the          *)
(*   exception that left the function, with the column it names.          *)
(***************************************************************************)
VARIABLES file, reference, generated, written, mpc, mraised, mkey

resultsVars == <<file, reference, generated, written, mpc, mraised, mkey>>

(***************************************************************************)
(*   the process that uses siliconai_acts/data/utils.py: the loaded        *)
(*   modules, the module's global coordinates_converter (0: not bound),   *)
(*   the converters built, the import statements and calls executed, the   *)
(*   calls that reached the converter, the last call and what it returned. *)
(***************************************************************************)
VARIABLES sys_modules, coordinates_converter, converters_built, imports,
          calls, converter_calls, called, returned, tpc

transformVars == <<sys_modules, coordinates_converter, converters_built,
                   imports, calls, converter_calls, called, returned, tpc>>

(***************************************************************************)
(* The command line application: the options of one invocation, the files  *)
(* at the candidate configuration paths, the module-level TyperState and   *)
(* the exit code of the process.                                           *)
(***************************************************************************)
VARIABLES config, debug, generate, invoked_subcommand, help, filesystem,
          state, exit_code, invocations, cpc

configVars == <<config, debug, generate, invoked_subcommand, help,
                filesystem, state, exit_code, invocations, cpc>>

(***************************************************************************)
(* The parallel generation and simulation runs: the arguments of one call  *)
(* of run_generation_multiprocess / run_simulation_multiprocess, the files *)
(* below the run directory, and the locals of the call.                    *)
(***************************************************************************)
VARIABLES stage, events, processes, slurm, postprocess, run_task, success,
          njobs, chunksize, begins, ends, submit_script, run_scripts,
          started, shard_outputs, merged_inputs, run_directory, error_log,
          spc, sraised

scheduleVars == <<stage, events, processes, slurm, postprocess, run_task,
                  success, njobs, chunksize, begins, ends, submit_script,
                  run_scripts, started, shard_outputs, merged_inputs,
                  run_directory, error_log, spc, sraised>>

(***************************************************************************)
(* export_hits: its arguments, the tasks queued in the process pool, how   *)
(* often export_hits_single ran for each file, and the scripts written.    *)
(***************************************************************************)
VARIABLES nfiles, task_id, export_slurm, pool_tasks, exported_files,
          export_run_scripts, export_submit_script, dpc, draised

dispatchVars == <<nfiles, task_id, export_slurm, pool_tasks, exported_files,
                  export_run_scripts, export_submit_script, dpc, draised>>

(***************************************************************************)
(* The local coordinates of the start-vertex rows of one batch of primary  *)
(* particles (process_particle_vertices_as_hits, end_vertex = False).      *)
(***************************************************************************)
VARIABLES start_vertices, vertex_lx, vertex_ly, vpc

vertexVars == <<start_vertices, vertex_lx, vertex_ly, vpc>>

vars == <<quantVars, exportVars, importVars, hitsVars, recoVars,
          resultsVars, transformVars, configVars, scheduleVars,
          dispatchVars, vertexVars>>

notQuant == <<exportVars, importVars, hitsVars, recoVars, resultsVars,
    transformVars, configVars, scheduleVars, dispatchVars, vertexVars>>

notExport == <<quantVars, importVars, hitsVars, recoVars, resultsVars,
    transformVars, configVars, scheduleVars, dispatchVars, vertexVars>>

notImport == <<quantVars, exportVars, hitsVars, recoVars, resultsVars,
    transformVars, configVars, scheduleVars, dispatchVars, vertexVars>>

notHits == <<quantVars, exportVars, importVars, recoVars, resultsVars,
    transformVars, configVars, scheduleVars, dispatchVars, vertexVars>>

notReco == <<quantVars, exportVars, importVars, hitsVars, resultsVars,
    transformVars, configVars, scheduleVars, dispatchVars, vertexVars>>

notResults == <<quantVars, exportVars, importVars, hitsVars, recoVars,
    transformVars, configVars, scheduleVars, dispatchVars, vertexVars>>

notTransform == <<quantVars, exportVars, importVars, hitsVars, recoVars,
    resultsVars, configVars, scheduleVars, dispatchVars, vertexVars>>

notConfig == <<quantVars, exportVars, importVars, hitsVars, recoVars,
    resultsVars, transformVars, scheduleVars, dispatchVars, vertexVars>>

notSchedule == <<quantVars, exportVars, importVars, hitsVars, recoVars,
    resultsVars, transformVars, configVars, dispatchVars, vertexVars>>

notDispatch == <<quantVars, exportVars, importVars, hitsVars, recoVars,
    resultsVars, transformVars, configVars, scheduleVars, vertexVars>>

notVertex == <<quantVars, exportVars, importVars, hitsVars, recoVars,
    resultsVars, transformVars, configVars, scheduleVars, dispatchVars>>

(***************************************************************************)
(* Quantization of a single element by both rules.                         *)
(***************************************************************************)
QuantIdle ==
    /\ qin = Zero /\ qvertex = Zero /\ qvertex2 = Zero
    /\ qhit = Zero /\ qhit2 = Zero /\ qlx = Zero
    /\ qpc = {}

QuantInit ==
    /\ qin \in {GridValue(n) : n \in -MaxGrid..MaxGrid}
    /\ qvertex = Zero /\ qvertex2 = Zero
    /\ qhit = Zero /\ qhit2 = Zero /\ qlx = Zero
    /\ qpc = {}

\* a vertex row's quantized column (the column is float32)
QuantizeVertexRow ==
    /\ "vertex" \notin qpc
    /\ qvertex' = QuantizeVertex(qin, Float32Prec)
    /\ qpc' = qpc \cup {"vertex"}
    /\ UNCHANGED <<qin, qvertex2, qhit, qhit2, qlx>>
    /\ UNCHANGED notQuant

\* the rule applied to its own output (a float64 column)
RequantizeVertexRow ==
    /\ "vertex" \in qpc /\ "vertex2" \notin qpc
    /\ qvertex2' = QuantizeVertex(qvertex, Float64Prec)
    /\ qpc' = qpc \cup {"vertex2"}
    /\ UNCHANGED <<qin, qvertex, qhit, qhit2, qlx>>
    /\ UNCHANGED notQuant

\* a hit row's quantized column
QuantizeHitRow ==
    /\ "hit" \notin qpc
    /\ qhit' = QuantizeHit(qin)
    /\ qpc' = qpc \cup {"hit"}
    /\ UNCHANGED <<qin, qvertex, qvertex2, qhit2, qlx>>
    /\ UNCHANGED notQuant

RequantizeHitRow ==
    /\ "hit" \in qpc /\ "hit2" \notin qpc
    /\ qhit2' = QuantizeHit(qhit)
    /\ qpc' = qpc \cup {"hit2"}
    /\ UNCHANGED <<qin, qvertex, qvertex2, qhit, qlx>>
    /\ UNCHANGED notQuant

\* importing.py line 42: data["lx"] = data["lxq"], on a hit row of the
\* exported table
ImportQuantizedHit ==
    /\ "hit" \in qpc /\ "import" \notin qpc
    /\ qlx' = qhit
    /\ qpc' = qpc \cup {"import"}
    /\ UNCHANGED <<qin, qvertex, qvertex2, qhit, qhit2>>
    /\ UNCHANGED notQuant

QuantNext ==
    \/ QuantizeVertexRow
    \/ RequantizeVertexRow
    \/ QuantizeHitRow
    \/ RequantizeHitRow
    \/ ImportQuantizedHit

(***************************************************************************)
(* Exporter.                                                               *)
(***************************************************************************)
geometry_id_start == 1000000
geometry_id_end == 1000001

\* sensor ids of the simulated hits, and the column values they carry
SensorIds == <<101, 102, 103>>

\* the kinematics of the primary particles, in units of the grid: two
\* presets of vx, vy, vz, px, py, pz
KinematicsGrid ==
    <<11, 37, -120, 291, -45, 580, -250, 64, 230, -310, 82, -594>>

AllVals == [i \in 1..Len(KinematicsGrid) |-> GridValue(KinematicsGrid[i])]

\* one preset per value of Vals, which is its vx
Kinematics ==
    [k \in 1..2 |->
        [vx |-> AllVals[6 * k - 5], vy |-> AllVals[6 * k - 4],
         vz |-> AllVals[6 * k - 3], px |-> AllVals[6 * k - 2],
         py |-> AllVals[6 * k - 1], pz |-> AllVals[6 * k]]]

Vals == [k \in 1..2 |-> AllVals[6 * k - 5]]

ParticleTypes == <<13, -13>>

\* the quantization of the few column values of the model, computed once
VertexQ == [i \in 1..Len(AllVals) |-> QuantizeVertex(AllVals[i], Float32Prec)]
HitQ == [i \in 1..Len(AllVals) |-> QuantizeHit(AllVals[i])]
ValIndex(v) == CHOOSE i \in 1..Len(AllVals) : AllVals[i] = v

\* one simulated event: the primary particle's hit count and vertex, and
\* which sensors its hits cross
SimEvents == [number_of_hits : 0..MaxHits, vx : 1..Len(Vals), track : 0..1]

\* process_particles(primary=True): one row per event
ParticleRows(sim) ==
    [e \in 1..Len(sim) |->
        [event_id |-> e - 1,
         vx |-> Kinematics[sim[e].vx].vx, vy |-> Kinematics[sim[e].vx].vy,
         vz |-> Kinematics[sim[e].vx].vz, px |-> Kinematics[sim[e].vx].px,
         py |-> Kinematics[sim[e].vx].py, pz |-> Kinematics[sim[e].vx].pz,
         particle_type |-> ParticleTypes[sim[e].vx],
         number_of_hits |-> sim[e].number_of_hits]]

\* a primary hit of event ev at 0-based trajectory index i on track k
HitRow(ev, i, k) ==
    LET kin == Kinematics[((i + k) % Len(Kinematics)) + 1]
    IN  [event_id |-> ev, index |-> i,
         geometry_id |-> SensorIds[((i + k) % Len(SensorIds)) + 1],
         tx |-> kin.vx, ty |-> kin.vy, tz |-> kin.vz,
         tpx |-> kin.px, tpy |-> kin.py, tpz |-> kin.pz,
         lx |-> kin.vx, ly |-> kin.vy]

\* the primary hits of event e (0-based index along the trajectory)
EventHits(sim, e) ==
    [i \in 1..sim[e].number_of_hits |-> HitRow(e - 1, i - 1, sim[e].track)]

RECURSIVE HitRows(_, _)
HitRows(sim, e) ==
    IF e = 0 THEN <<>> ELSE HitRows(sim, e - 1) \o EventHits(sim, e)

\* k hits of event ev, an event without a particle row
OrphanHits(ev, k) == [i \in 1..k |-> HitRow(ev, i - 1, 0)]

Reverse(s) == [i \in 1..Len(s) |-> s[Len(s) + 1 - i]]

\* DataFrame.sort_index() on the (event_id, index) MultiIndex
KeyLess(a, b) ==
    \/ a.event_id < b.event_id
    \/ a.event_id = b.event_id /\ a.index < b.index

SortIndex(s) ==
    LET Pos(i) == Cardinality({j \in 1..Len(s) :
                       \/ KeyLess(s[j], s[i])
                       \/ ~KeyLess(s[i], s[j]) /\ j < i}) + 1
    IN  [k \in 1..Len(s) |-> s[CHOOSE i \in 1..Len(s) : Pos(i) = k]]

\* vertex_data["tz"].abs().max()
MaxAbsTz(vertex_data) ==
    [vertex_data[CHOOSE r \in 1..Len(vertex_data) :
         \A q \in 1..Len(vertex_data) :
             ~FlMagLess(vertex_data[r].vz, vertex_data[q].vz)].vz
        EXCEPT !.neg = FALSE]

\* line 74: ly of a start-vertex row, tz / tz.abs().max() * 50 in float32
StartVertexLy(tz, maxabs) ==
    FlMul(FlDivFl(tz, maxabs, Float32Prec), 50, Float32Prec)

\* the vertex row of one particle with every column kept from the particle
VertexRowUnchanged(p, end_vertex, maxabs) ==
    LET ly == StartVertexLy(p.vz, maxabs)
    IN  [event_id |-> p.event_id,
         index |-> IF end_vertex THEN p.number_of_hits + 1 ELSE 0,
         geometry_id |-> IF end_vertex THEN geometry_id_end
                         ELSE geometry_id_start,
         tx |-> p.vx, ty |-> p.vy, tz |-> p.vz,
         tpx |-> p.px, tpy |-> p.py, tpz |-> p.pz,
         lx |-> p.vx, ly |-> ly,
         lxq |-> VertexQ[ValIndex(p.vx)],
         lyq |-> QuantizeVertex(ly, Float32Prec),
         tpxq |-> VertexQ[ValIndex(p.px)],
         tpyq |-> VertexQ[ValIndex(p.py)],
         tpzq |-> VertexQ[ValIndex(p.pz)]]

\* process_particle_vertices_as_hits, lines 43-91, for one particle
VertexRow(p, end_vertex, maxabs) ==
    LET ly == IF end_vertex THEN p.vx ELSE StartVertexLy(p.vz, maxabs)
    IN  [event_id |-> p.event_id,
         index |-> IF end_vertex THEN p.number_of_hits + 1 ELSE 0,
         geometry_id |-> IF end_vertex THEN geometry_id_end
                         ELSE geometry_id_start,
         tx |-> p.vx, ty |-> p.vy,
         tz |-> IF end_vertex THEN p.vx ELSE p.vz,
         tpx |-> p.px, tpy |-> p.py, tpz |-> p.pz,
         lx |-> p.vx, ly |-> ly,
         lxq |-> VertexQ[ValIndex(p.vx)],
         lyq |-> IF end_vertex THEN VertexQ[ValIndex(p.vx)]
                 ELSE QuantizeVertex(ly, Float32Prec),
         tpxq |-> VertexQ[ValIndex(p.px)],
         tpyq |-> VertexQ[ValIndex(p.py)],
         tpzq |-> VertexQ[ValIndex(p.pz)]]

\* process_particle_vertices_as_hits
ProcessParticleVerticesAsHits(vertex_data, end_vertex) ==
    SortIndex([r \in 1..Len(vertex_data) |->
        VertexRow(vertex_data[r], end_vertex, MaxAbsTz(vertex_data))])

\* lines 165-169: the quantized columns of a hit row
QuantizeHitColumns(h) ==
    [event_id |-> h.event_id, index |-> h.index,
     geometry_id |-> h.geometry_id,
     tx |-> h.tx, ty |-> h.ty, tz |-> h.tz,
     tpx |-> h.tpx, tpy |-> h.tpy, tpz |-> h.tpz,
     lx |-> h.lx, ly |-> h.ly,
     lxq |-> HitQ[ValIndex(h.lx)], lyq |-> HitQ[ValIndex(h.ly)],
     tpxq |-> HitQ[ValIndex(h.tpx)], tpyq |-> HitQ[ValIndex(h.tpy)],
     tpzq |-> HitQ[ValIndex(h.tpz)]]

\* ProcessHits without the shift of the hit index by one
ProcessHitsNoShift(raw) ==
    LET sorted == SortIndex(raw)
    IN  [r \in 1..Len(sorted) |-> QuantizeHitColumns(sorted[r])]

\* export_hits_single, lines 161-169: shift the index, sort, quantize
ProcessHits(raw) ==
    LET shifted == [r \in 1..Len(raw) |->
                       [raw[r] EXCEPT !.index = raw[r].index + 1]]
        sorted  == SortIndex(shifted)
    IN  [r \in 1..Len(sorted) |-> QuantizeHitColumns(sorted[r])]

\* the concatenation without the sort
ConcatUnsorted(a, b, c) == a \o b \o c

\* pd.concat([...]).sort_index()
ConcatSorted(a, b, c) == SortIndex(a \o b \o c)

\* line 127 and the column list of line 104: the common attributes of the
\* particles, indexed by event_id
ParticlesDataCommon(p) ==
    [r \in 1..Len(p) |-> [event_id |-> p[r].event_id,
                          particle_type |-> p[r].particle_type,
                          number_of_hits |-> p[r].number_of_hits]]

\* a row of the table with the common attributes of its event joined in;
\* common_null says that the two joined columns are null in this row
JoinedRow(row, common) ==
    LET match == {r \in 1..Len(common) : common[r].event_id = row.event_id}
        found == CHOOSE r \in match : TRUE
    IN  [event_id |-> row.event_id, index |-> row.index,
         geometry_id |-> row.geometry_id,
         tx |-> row.tx, ty |-> row.ty, tz |-> row.tz,
         tpx |-> row.tpx, tpy |-> row.tpy, tpz |-> row.tpz,
         lx |-> row.lx, ly |-> row.ly,
         lxq |-> row.lxq, lyq |-> row.lyq,
         tpxq |-> row.tpxq, tpyq |-> row.tpyq, tpzq |-> row.tpzq,
         common_null |-> match = {},
         particle_type |-> IF match = {} THEN 0
                           ELSE common[found].particle_type,
         number_of_hits |-> IF match = {} THEN 0
                            ELSE common[found].number_of_hits]

\* the join that keeps only the rows with a particle
JoinCommonInner(cat, common) ==
    LET HasParticle(row) ==
            \E r \in 1..Len(common) : common[r].event_id = row.event_id
        kept == SelectSeq(cat, HasParticle)
    IN  [r \in 1..Len(kept) |-> JoinedRow(kept[r], common)]

\* lines 178-180: cat_data.join(common.reindex(cat_data.index, level=0))
JoinCommon(cat, common) ==
    [r \in 1..Len(cat) |-> JoinedRow(cat[r], common)]

\* reset_index().groupby("event_id").size()
GroupSize(t) ==
    [e \in {t[i].event_id : i \in 1..Len(t)} |->
        Cardinality({i \in 1..Len(t) : t[i].event_id = e})]

\* value_counts(): how many events have each size; the sizes of the
\* highest frequency are the candidates for head(1)
ModalSizes(sizes) ==
    LET Freq(c) == Cardinality({e \in DOMAIN sizes : sizes[e] = c})
        range   == {sizes[e] : e \in DOMAIN sizes}
    IN  {c \in range : \A d \in range : Freq(d) <= Freq(c)}

\* the filter that compares number_of_hits with the row count of an event
FilterLengthNoVertexRows(t, wanted) ==
    LET Wanted(row) == ~row.common_null
                           /\ row.number_of_hits = wanted
    IN  SelectSeq(t, Wanted)

\* line 188: output_data[output_data["number_of_hits"] == wanted_length - 2]
FilterLength(t, wanted) ==
    LET Wanted(row) == ~row.common_null
                           /\ row.number_of_hits = wanted - 2
    IN  SelectSeq(t, Wanted)

\* the event index left as it is
KeepLevels(t) == t

\* lines 189-194: remove_unused_levels().set_levels(range(output_size)):
\* the k-th smallest remaining event id becomes k - 1
SetLevels(t) ==
    LET ids == {t[i].event_id : i \in 1..Len(t)}
    IN  [r \in 1..Len(t) |->
            [t[r] EXCEPT !.event_id =
                Cardinality({e \in ids : e < t[r].event_id})]]

\* line 196: output_data[hits_columns_out]
hits_columns_out ==
    <<"geometry_id", "particle_type", "lxq", "lyq", "tpxq", "tpyq", "tpzq">>

QuantizedColumns == {"lxq", "lyq", "tpxq", "tpyq", "tpzq"}

SelectColumns(t) ==
    [r \in 1..Len(t) |->
        [event_id |-> t[r].event_id, index |-> t[r].index,
         geometry_id |-> t[r].geometry_id,
         common_null |-> t[r].common_null,
         particle_type |-> t[r].particle_type,
         lxq |-> t[r].lxq, lyq |-> t[r].lyq,
         tpxq |-> t[r].tpxq, tpyq |-> t[r].tpyq, tpzq |-> t[r].tpzq]]

\* select_dtypes(include=["float32", "float64"]): the quantized columns
\* are float64; particle_type is an integer column unless the join left a
\* null in it; geometry_id is uint64
IsFloatColumn(t, c) ==
    \/ c \in QuantizedColumns
    \/ c = "particle_type" /\ \E r \in 1..Len(t) : t[r].common_null

\* a quantized value in units of 0.01; the values of the two tables are
\* converted once
QuantCenti ==
    [q \in {VertexQ[i] : i \in 1..Len(AllVals)}
              \cup {HitQ[i] : i \in 1..Len(AllVals)} |->
        FlRint(FlMul(q, 100, Float64Prec))]

CentiOf(q) == IF q \in DOMAIN QuantCenti THEN QuantCenti[q]
              ELSE FlRint(FlMul(q, 100, Float64Prec))

\* the non-null values of a float column, in units of 0.01 (quantized
\* columns) or of 1 (particle_type)
ColumnValues(t, c) ==
    IF c = "particle_type"
    THEN LET NotNull(row) == ~row.common_null
             rows == SelectSeq(t, NotNull)
         IN  [r \in 1..Len(rows) |-> rows[r].particle_type]
    ELSE [r \in 1..Len(t) |-> CentiOf(t[r][c])]

RECURSIVE SumTo(_, _)
SumTo(v, n) == IF n = 0 THEN 0 ELSE v[n] + SumTo(v, n - 1)

SumOf(v) == SumTo(v, Len(v))

\* the sample standard deviation with the divisor n in place of n - 1
StdPopulation(v) ==
    LET n == Len(v)
        s == SumOf(v)
    IN  [num |-> n * SumOf([i \in 1..n |-> v[i] * v[i]]) - s * s,
         den |-> n * n]

\* Series.std(): the square of the sample standard deviation (ddof = 1),
\* as the fraction num / den; den = 0 stands for NaN
Std(v) ==
    LET n == Len(v)
        s == SumOf(v)
    IN  [num |-> n * SumOf([i \in 1..n |-> v[i] * v[i]]) - s * s,
         den |-> n * (n - 1)]

\* lines 203-210: min, max, mean and std of one column; the mean is the
\* fraction num / den, and min and max are meaningless when den = 0
ColumnStats(v) ==
    [min  |-> IF Len(v) = 0 THEN 0
              ELSE v[CHOOSE i \in 1..Len(v) : \A j \in 1..Len(v) : v[i] <= v[j]],
     max  |-> IF Len(v) = 0 THEN 0
              ELSE v[CHOOSE i \in 1..Len(v) : \A j \in 1..Len(v) : v[j] <= v[i]],
     mean |-> [num |-> SumOf(v), den |-> Len(v)],
     std  |-> Std(v)]

\* lines 198-216: one metadata row per float column of hits_columns_out
Metadata(t) ==
    LET IsFloat(c) == IsFloatColumn(t, c)
        labels == SelectSeq(hits_columns_out, IsFloat)
    IN  [k \in 1..Len(labels) |->
            [label |-> labels[k],
             stats |-> ColumnStats(ColumnValues(t, labels[k]))]]

ExportIdle ==
    /\ particles = <<>> /\ hits = <<>>
    /\ particles_data_vertex = <<>> /\ particles_data_vertex_end = <<>>
    /\ hits_data = <<>> /\ cat_data = <<>>
    /\ particles_data_common = <<>> /\ output_data = <<>>
    /\ fixed_length = FALSE /\ wanted_length = 0
    /\ metadata = <<>> /\ hdf = [hits |-> <<>>, metadata |-> <<>>]
    /\ xpc = "idle"

\* the locals of export_hits_single before its first statement
ExportLocalsUnset ==
    /\ particles_data_vertex = <<>> /\ particles_data_vertex_end = <<>>
    /\ hits_data = <<>> /\ cat_data = <<>>
    /\ particles_data_common = <<>> /\ output_data = <<>>
    /\ fixed_length = FALSE /\ wanted_length = 0
    /\ metadata = <<>> /\ hdf = [hits |-> <<>>, metadata |-> <<>>]
    /\ xpc = "particles"

\* the two files of one simulation: every event has its primary particle
ExportInit ==
    /\ \E n \in 1..MaxEvents : \E sim \in [1..n -> SimEvents] :
          /\ particles = ParticleRows(sim)
          /\ hits \in {HitRows(sim, n), Reverse(HitRows(sim, n))}
    /\ ExportLocalsUnset

\* a hits file that also holds hits of an event without a particle row
ExportInitOrphan ==
    /\ \E n \in 1..MaxEvents : \E sim \in [1..n -> SimEvents] :
       \E k \in 1..MaxHits :
          /\ particles = ParticleRows(sim)
          /\ hits \in {HitRows(sim, n) \o OrphanHits(n, k),
                       Reverse(HitRows(sim, n) \o OrphanHits(n, k))}
    /\ ExportLocalsUnset

\* a batch of up to MaxBatch events whose particles alternate between the
\* two presets
ExportInitBatch ==
    /\ \E n \in 1..MaxBatch : \E sim \in [1..n -> SimEvents] :
          /\ \A e \in 1..n : sim[e].vx = ((e - 1) % 2) + 1 /\ sim[e].track = 0
          /\ particles = ParticleRows(sim)
          /\ hits \in {HitRows(sim, n), Reverse(HitRows(sim, n))}
    /\ ExportLocalsUnset

\* lines 117-136
PostprocessParticles ==
    /\ xpc = "particles"
    /\ particles_data_common' = ParticlesDataCommon(particles)
    /\ particles_data_vertex' = ProcessParticleVerticesAsHits(particles, FALSE)
    /\ particles_data_vertex_end' =
           ProcessParticleVerticesAsHits(particles, TRUE)
    /\ xpc' = "hits"
    /\ UNCHANGED <<particles, hits, hits_data, cat_data, output_data,
                   fixed_length, wanted_length, metadata, hdf>>
    /\ UNCHANGED notExport

\* lines 139-171
LoadHits ==
    /\ xpc = "hits"
    /\ hits_data' = ProcessHits(hits)
    /\ xpc' = "merge"
    /\ UNCHANGED <<particles, hits, particles_data_vertex,
                   particles_data_vertex_end, cat_data,
                   particles_data_common, output_data,
                   fixed_length, wanted_length, metadata, hdf>>
    /\ UNCHANGED notExport

\* lines 173-176
MergeParticlesAndHits ==
    /\ xpc = "merge"
    /\ cat_data' = ConcatSorted(particles_data_vertex, hits_data,
                                particles_data_vertex_end)
    /\ xpc' = "merged"
    /\ UNCHANGED <<particles, hits, particles_data_vertex,
                   particles_data_vertex_end, hits_data,
                   particles_data_common, output_data,
                   fixed_length, wanted_length, metadata, hdf>>
    /\ UNCHANGED notExport

\* lines 178-180
JoinParticleAttributes ==
    /\ xpc = "merged"
    /\ output_data' = JoinCommon(cat_data, particles_data_common)
    /\ xpc' = "joined"
    /\ UNCHANGED <<particles, hits, particles_data_vertex,
                   particles_data_vertex_end, hits_data, cat_data,
                   particles_data_common,
                   fixed_length, wanted_length, metadata, hdf>>
    /\ UNCHANGED notExport

\* lines 182-194; the argument fixed_length is chosen here, where it is
\* first read; head(1) of value_counts() is any of the most frequent sizes
SelectFixedLength ==
    /\ xpc = "joined"
    /\ \E fl \in BOOLEAN :
          /\ fixed_length' = fl
          /\ IF fl
             THEN \E w \in ModalSizes(GroupSize(output_data)) :
                     /\ wanted_length' = w
                     /\ output_data' = SetLevels(FilterLength(output_data, w))
             ELSE UNCHANGED <<wanted_length, output_data>>
    /\ xpc' = "filtered"
    /\ UNCHANGED <<particles, hits, particles_data_vertex,
                   particles_data_vertex_end, hits_data, cat_data,
                   particles_data_common, metadata, hdf>>
    /\ UNCHANGED notExport

\* lines 196-226
ExportMetadataAndData ==
    /\ xpc = "filtered"
    /\ output_data' = SelectColumns(output_data)
    /\ metadata' = Metadata(SelectColumns(output_data))
    /\ hdf' = [hits |-> output_data', metadata |-> metadata']
    /\ xpc' = "exported"
    /\ UNCHANGED <<particles, hits, particles_data_vertex,
                   particles_data_vertex_end, hits_data, cat_data,
                   particles_data_common, fixed_length, wanted_length>>
    /\ UNCHANGED notExport

ExportNext ==
    \/ PostprocessParticles
    \/ LoadHits
    \/ MergeParticlesAndHits
    \/ JoinParticleAttributes
    \/ SelectFixedLength
    \/ ExportMetadataAndData

(***************************************************************************)
(* Importer and validator preprocessing (preprocess_input).                *)
(***************************************************************************)
\* a sensor id the geometry does not know
UnknownSensorId == SensorIds[Len(SensorIds)] + 1

GeometryIds == {geometry_id_start, geometry_id_end, SensorIds[1],
                UnknownSensorId}

IsSentinel(g) == g = geometry_id_start \/ g = geometry_id_end

\* the stored tables: every row has an index label, a geometry id and a
\* quantized local coordinate (in units of 0.01)
StoredTables ==
    UNION {[1..n -> [label : 0..MaxLabel, geometry_id : GeometryIds]]
              : n \in 1..MaxRows}

StoredRows(t) ==
    [r \in 1..Len(t) |-> [label |-> t[r].label,
                          geometry_id |-> t[r].geometry_id,
                          lxq |-> 10 * r]]

\* the drop that removes the start-vertex rows only
DropStartRows(t) ==
    LET labels == {t[r].label : r \in {q \in 1..Len(t) :
                       t[q].geometry_id = geometry_id_start}}
        Keep(row) == row.label \notin labels
    IN  SelectSeq(t, Keep)

\* data.drop(data[(geometry_id == start) | (geometry_id == end)].index):
\* drops every row whose label is the label of a sentinel row
DropSentinelRows(t) ==
    LET labels == {t[r].label : r \in {q \in 1..Len(t) :
                       IsSentinel(t[q].geometry_id)}}
        Keep(row) == row.label \notin labels
    IN  SelectSeq(t, Keep)

\* data["lx"] = data["lxq"]
DecodeLocal(t) ==
    [r \in 1..Len(t) |-> [label |-> t[r].label,
                          geometry_id |-> t[r].geometry_id,
                          lxq |-> t[r].lxq,
                          lx |-> t[r].lxq]]

\* the geometry knows the sensor
LookupSucceeds(g) == \E i \in 1..Len(SensorIds) : SensorIds[i] = g

\* what the geometry returns for a row: a value of the external converter
LocalToGlobal(g, l) == [substituted |-> FALSE, geometry_id |-> g, lx |-> l]

\* the column that the scalar 0 of global_data = [0, 0, 0] broadcasts to
SubstitutedZero == [substituted |-> TRUE, geometry_id |-> 0, lx |-> 0]

\* np.vectorize(local_to_global): one lookup per row; the exception of any
\* row leaves the whole call
LocalToGlobalVec(t) ==
    IF \A r \in 1..Len(t) : LookupSucceeds(t[r].geometry_id)
    THEN [raised |-> "",
          value |-> [r \in 1..Len(t) |->
                        LocalToGlobal(t[r].geometry_id, t[r].lxq)]]
    ELSE [raised |-> "RuntimeError", value |-> <<>>]

ImportIdle ==
    /\ store = <<>> /\ module = "" /\ data = <<>> /\ global_data = <<>>
    /\ tx = <<>> /\ ipc = "idle" /\ iraised = ""

ImportInit ==
    /\ store \in {StoredRows(t) : t \in StoredTables}
    /\ module \in {"importing", "validation"}
    /\ data = <<>> /\ global_data = <<>> /\ tx = <<>>
    /\ ipc = "read" /\ iraised = ""

\* importing.py lines 33-68, validation.py lines 36-51
PreprocessColumns ==
    /\ ipc = "read"
    /\ data' = DecodeLocal(DropSentinelRows(store))
    /\ ipc' = "convert"
    /\ UNCHANGED <<store, module, global_data, tx, iraised>>
    /\ UNCHANGED notImport

\* importing.py lines 70-79: the call is inside try/except RuntimeError
ImporterLocalToGlobal ==
    /\ ipc = "convert" /\ module = "importing"
    /\ LET res == LocalToGlobalVec(data)
       IN  /\ global_data' = IF res.raised = "RuntimeError"
                             THEN <<0, 0, 0>> ELSE res.value
           /\ tx' = IF res.raised = "RuntimeError"
                    THEN [r \in 1..Len(data) |-> SubstitutedZero]
                    ELSE res.value
    /\ ipc' = "done"
    /\ UNCHANGED <<store, module, data, iraised>>
    /\ UNCHANGED notImport

\* validation.py lines 53-66: the call is not guarded
ValidatorLocalToGlobal ==
    /\ ipc = "convert" /\ module = "validation"
    /\ LET res == LocalToGlobalVec(data)
       IN  IF res.raised = ""
           THEN /\ global_data' = res.value
                /\ tx' = res.value
                /\ ipc' = "done"
                /\ UNCHANGED iraised
           ELSE /\ iraised' = res.raised
                /\ ipc' = "failed"
                /\ UNCHANGED <<global_data, tx>>
    /\ UNCHANGED <<store, module, data>>
    /\ UNCHANGED notImport

ImportNext ==
    \/ PreprocessColumns
    \/ ImporterLocalToGlobal
    \/ ValidatorLocalToGlobal

(***************************************************************************)
(* import_results: both tables of the file are preprocessed, then both     *)
(* hit trees are written.                                                  *)
(***************************************************************************)
DeltaColumns == {"deltapxq", "deltapyq", "deltapzq"}

\* the columns preprocess_input reads, in the order it reads them
RequiredColumns ==
    <<"geometry_id", "lxq", "lyq", "tpxq", "deltapxq", "tpyq", "deltapyq",
      "tpzq", "deltapzq">>

\* the rows of a stored table, values in units of 0.01: a start-vertex row,
\* two hits and an end-vertex row; the field of an absent column is unused
ResultRows(k) ==
    [r \in 1..4 |->
        [label |-> r,
         geometry_id |-> IF r = 1 THEN geometry_id_start
                         ELSE IF r = 4 THEN geometry_id_end
                         ELSE SensorIds[r - 1],
         lxq |-> 10 * k + r, lyq |-> -(20 * k + r),
         tpxq |-> 30 + r * k, tpyq |-> -(40 + r), tpzq |-> 50 * k + r,
         deltapxq |-> k, deltapyq |-> -k, deltapzq |-> 2 * k + r]]

\* the stored tables: up to MaxMissing quantized columns are absent, and
\* the delta columns are there or not
StoredResultTables ==
    {[columns |-> ({RequiredColumns[i] : i \in 1..Len(RequiredColumns)}
                       \ mq) \ md,
      rows |-> ResultRows(k)] :
        mq \in {m \in SUBSET QuantizedColumns : Cardinality(m) <= MaxMissing},
        md \in {{}, DeltaColumns},
        k \in 1..MaxVariants}

\* the first column, in reading order, that the table lacks ("" if none)
FirstMissing(columns) ==
    LET miss == {i \in 1..Len(RequiredColumns) :
                    RequiredColumns[i] \notin columns}
    IN  IF miss = {} THEN ""
        ELSE RequiredColumns[CHOOSE i \in miss : \A j \in miss : i <= j]

\* lines 42-59 and 70-85 on the rows left by the drop
ImportedRows(t) ==
    LET res == LocalToGlobalVec(t)
    IN  [r \in 1..Len(t) |->
            [label |-> t[r].label, geometry_id |-> t[r].geometry_id,
             lx |-> t[r].lxq, ly |-> t[r].lyq,
             tpx |-> t[r].tpxq - t[r].deltapxq,
             tpy |-> t[r].tpyq - t[r].deltapyq,
             tpz |-> t[r].tpzq - t[r].deltapzq,
             deltapx |-> t[r].deltapxq, deltapy |-> t[r].deltapyq,
             deltapz |-> t[r].deltapzq,
             tx |-> IF res.raised = "" THEN res.value[r]
                    ELSE SubstitutedZero]]

\* preprocess_input that takes an absent column as a column of zeros
PreprocessInputLenient(table) ==
    LET Filled(row) ==
            [c \in DOMAIN row |->
                IF c \in DeltaColumns \cup QuantizedColumns
                       /\ c \notin table.columns
                THEN 0 ELSE row[c]]
    IN  [raised |-> "", key |-> "",
         data |-> ImportedRows(DropSentinelRows(
                      [r \in 1..Len(table.rows) |-> Filled(table.rows[r])]))]

\* preprocess_input: data["c"] of an absent column raises KeyError("c")
PreprocessInput(table) ==
    IF FirstMissing(table.columns) # ""
    THEN [raised |-> "KeyError", key |-> FirstMissing(table.columns),
          data |-> <<>>]
    ELSE [raised |-> "", key |-> "",
          data |-> ImportedRows(DropSentinelRows(table.rows))]

ResultsIdle ==
    /\ file = <<>> /\ reference = <<>> /\ generated = <<>>
    /\ written = {} /\ mpc = "idle" /\ mraised = "" /\ mkey = ""

ResultsInit ==
    /\ file \in [reference_data : StoredResultTables,
                 generated_data : StoredResultTables]
    /\ reference = <<>> /\ generated = <<>>
    /\ written = {} /\ mpc = "reference" /\ mraised = "" /\ mkey = ""

\* line 159
PreprocessReference ==
    /\ mpc = "reference"
    /\ LET res == PreprocessInput(file.reference_data)
       IN  IF res.raised = ""
           THEN /\ reference' = res.data
                /\ mpc' = "generated"
                /\ UNCHANGED <<mraised, mkey>>
           ELSE /\ mraised' = res.raised
                /\ mkey' = res.key
                /\ mpc' = "failed"
                /\ UNCHANGED reference
    /\ UNCHANGED <<file, generated, written>>
    /\ UNCHANGED notResults

\* line 160
PreprocessGenerated ==
    /\ mpc = "generated"
    /\ LET res == PreprocessInput(file.generated_data)
       IN  IF res.raised = ""
           THEN /\ generated' = res.data
                /\ mpc' = "write_reference"
                /\ UNCHANGED <<mraised, mkey>>
           ELSE /\ mraised' = res.raised
                /\ mkey' = res.key
                /\ mpc' = "failed"
                /\ UNCHANGED generated
    /\ UNCHANGED <<file, reference, written>>
    /\ UNCHANGED notResults

\* line 162: write_hits_tree(logger, config, reference, "reference")
WriteReferenceTree ==
    /\ mpc = "write_reference"
    /\ written' = written \cup {"hits_reference.root"}
    /\ mpc' = "write_generated"
    /\ UNCHANGED <<file, reference, generated, mraised, mkey>>
    /\ UNCHANGED notResults

\* line 163: write_hits_tree(logger, config, generated, "generated")
WriteGeneratedTree ==
    /\ mpc = "write_generated"
    /\ written' = written \cup {"hits_generated.root"}
    /\ mpc' = "done"
    /\ UNCHANGED <<file, reference, generated, mraised, mkey>>
    /\ UNCHANGED notResults

ResultsNext ==
    \/ PreprocessReference
    \/ PreprocessGenerated
    \/ WriteReferenceTree
    \/ WriteGeneratedTree

(***************************************************************************)
(* Coordinate transform (siliconai_acts/data/utils.py) in one process.     *)
(***************************************************************************)
UtilsModule == "siliconai_acts.data.utils"

\* the geometry ids and the coordinates of the calls
CallGeometryIds == {0, SensorIds[1], SensorIds[2], geometry_id_start}

CallCoordinates == {-MaxCoordinate, MaxCoordinate}

\* the import statement that runs the module again although it is loaded
ImportUtilsReexecuted(modules, converter, built) ==
    [sys_modules |-> modules \cup {UtilsModule},
     coordinates_converter |-> built + 1,
     converters_built |-> built + 1]

\* "from siliconai_acts.data.utils import ...": the module body, lines
\* 5-14, runs when the module is not in sys.modules, and binds
\* coordinates_converter to the object get_coordinates_converter builds
ImportUtils(modules, converter, built) ==
    IF UtilsModule \in modules
    THEN [sys_modules |-> modules, coordinates_converter |-> converter,
          converters_built |-> built]
    ELSE [sys_modules |-> modules \cup {UtilsModule},
          coordinates_converter |-> built + 1,
          converters_built |-> built + 1]

\* the value a function of the module returns: zeros is the number of 0.0
\* it returns without the converter; otherwise the value is the one that
\* method of converter by returns for args
ReturnedZeros(n) ==
    [zeros |-> n, by |-> 0, method |-> "", args |-> <<>>]

ReturnedByConverter(converter, method, args) ==
    [zeros |-> 0, by |-> converter, method |-> method, args |-> args]

\* global_to_local without the test of geometry_id
global_to_local_unguarded(converter, geometry_id, x, y, z) ==
    ReturnedByConverter(converter, "globalToLocal", <<geometry_id, x, y, z>>)

\* lines 17-27
global_to_local(converter, geometry_id, x, y, z) ==
    IF geometry_id = 0 THEN ReturnedZeros(2)
    ELSE ReturnedByConverter(converter, "globalToLocal",
                             <<geometry_id, x, y, z>>)

\* lines 30-39
local_to_global(converter, geometry_id, x, y) ==
    IF geometry_id = 0 THEN ReturnedZeros(3)
    ELSE ReturnedByConverter(converter, "localToGlobal",
                             <<geometry_id, x, y>>)

TransformIdle ==
    /\ sys_modules = {} /\ coordinates_converter = 0
    /\ converters_built = 0 /\ imports = 0 /\ calls = 0
    /\ converter_calls = 0 /\ called = <<>> /\ returned = ReturnedZeros(0)
    /\ tpc = "idle"

\* a fresh process
TransformInit ==
    /\ sys_modules = {} /\ coordinates_converter = 0
    /\ converters_built = 0 /\ imports = 0 /\ calls = 0
    /\ converter_calls = 0 /\ called = <<>> /\ returned = ReturnedZeros(0)
    /\ tpc = "running"

\* a function-level import of a caller (acts plotting/validation.py line
\* 44, diagnostics.py line 450, importing.py line 70)
ImportStatement ==
    /\ tpc = "running" /\ imports < MaxImports
    /\ LET res == ImportUtils(sys_modules, coordinates_converter,
                              converters_built)
       IN  /\ sys_modules' = res.sys_modules
           /\ coordinates_converter' = res.coordinates_converter
           /\ converters_built' = res.converters_built
    /\ imports' = imports + 1
    /\ UNCHANGED <<calls, converter_calls, called, returned, tpc>>
    /\ UNCHANGED notTransform

\* one element of global_to_local_vec
CallGlobalToLocal ==
    /\ tpc = "running" /\ UtilsModule \in sys_modules /\ calls < MaxCalls
    /\ \E g \in CallGeometryIds : \E x, y, z \in CallCoordinates :
          /\ called' = <<"global_to_local", g, x, y, z>>
          /\ returned' = global_to_local(coordinates_converter, g, x, y, z)
    /\ calls' = calls + 1
    /\ converter_calls' = IF returned'.by # 0 THEN converter_calls + 1
                          ELSE converter_calls
    /\ UNCHANGED <<sys_modules, coordinates_converter, converters_built,
                   imports, tpc>>
    /\ UNCHANGED notTransform

\* one element of local_to_global_vec
CallLocalToGlobal ==
    /\ tpc = "running" /\ UtilsModule \in sys_modules /\ calls < MaxCalls
    /\ \E g \in CallGeometryIds : \E x, y \in CallCoordinates :
          /\ called' = <<"local_to_global", g, x, y>>
          /\ returned' = local_to_global(coordinates_converter, g, x, y)
    /\ calls' = calls + 1
    /\ converter_calls' = IF returned'.by # 0 THEN converter_calls + 1
                          ELSE converter_calls
    /\ UNCHANGED <<sys_modules, coordinates_converter, converters_built,
                   imports, tpc>>
    /\ UNCHANGED notTransform

TransformNext ==
    \/ ImportStatement
    \/ CallGlobalToLocal
    \/ CallLocalToGlobal

(***************************************************************************)
(* Hit-level comparison (validate_hits).                                   *)
(***************************************************************************)
\* the index of a table: the MultiIndex (event_id, index), a MultiIndex of
\* three levels (event_id, particle_id, index), a RangeIndex with event_id
\* and index as columns, or a flat index with no event_id anywhere
IndexKinds == {"event_index", "event_particle_index", "range", "index_only"}

IsMultiIndex(kind) == kind \in {"event_index", "event_particle_index"}

HasEventKey(kind) == kind # "index_only"

ReferenceCount(e) == <<5, 3, 7>>[(e % 3) + 1]

GeneratedCount(e) == <<5, 3, 6>>[(e % 3) + 1]

RECURSIVE TableRows(_, _)
TableRows(counts, e) ==
    IF e < 0 THEN <<>>
    ELSE TableRows(counts, e - 1)
             \o [i \in 1..counts[e] |-> [event_id |-> e, index |-> i - 1]]

ReferenceTables ==
    {TableRows([e \in 0..MaxEventId |->
                   IF present[e] THEN ReferenceCount(e) ELSE 0], MaxEventId)
        : present \in [0..MaxEventId -> BOOLEAN]}

GeneratedTables ==
    {TableRows([e \in 0..MaxEventId |->
                   IF c[e] = 0 THEN 0
                   ELSE IF c[e] = 1 THEN ReferenceCount(e)
                   ELSE GeneratedCount(e)], MaxEventId)
        : c \in [0..MaxEventId -> 0..2]}

\* groupby("event_id").count()["index"]: one entry per event with rows
GroupByEventCount(rows) ==
    [e \in {rows[i].event_id : i \in 1..Len(rows)} |->
        Cardinality({i \in 1..Len(rows) : rows[i].event_id = e})]

\* data.loc[[event]]
LocEvent(rows, ev) == LET InEvent(r) == r.event_id = ev
                      IN  SelectSeq(rows, InEvent)

Abs(n) == IF n < 0 THEN -n ELSE n

\* abs(a - b) of two Series: aligned on the union of the labels, NaN where
\* one side has no entry
AbsDiffAligned(a, b) ==
    [e \in (DOMAIN a) \cup (DOMAIN b) |->
        IF e \in DOMAIN a /\ e \in DOMAIN b
        THEN [nan |-> FALSE, value |-> Abs(a[e] - b[e])]
        ELSE [nan |-> TRUE, value |-> 0]]

HitsIdle ==
    /\ reference_data = [kind |-> "", rows |-> <<>>]
    /\ generated_data = [kind |-> "", rows |-> <<>>]
    /\ event = -1 /\ size = 0 /\ pdf = FALSE
    /\ reference_hits = <<>> /\ generated_hits = <<>> /\ diff_hits = <<>>
    /\ hpc = "idle" /\ hraised = ""

HitsInit ==
    /\ reference_data \in [kind : IndexKinds, rows : ReferenceTables]
    /\ generated_data \in [kind : IndexKinds, rows : GeneratedTables]
    /\ event \in -1..MaxEventId
    /\ size = 0 /\ pdf = FALSE
    /\ reference_hits = <<>> /\ generated_hits = <<>> /\ diff_hits = <<>>
    /\ hpc = "start" /\ hraised = ""

\* line 97: size = len(reference_data.groupby("event_id").size())
CountEvents ==
    /\ hpc = "start"
    /\ IF HasEventKey(reference_data.kind)
       THEN /\ size' = Cardinality(DOMAIN
                           GroupByEventCount(reference_data.rows))
            /\ hpc' = "check"
            /\ UNCHANGED hraised
       ELSE /\ hraised' = "KeyError"
            /\ hpc' = "failed"
            /\ UNCHANGED size
    /\ UNCHANGED <<reference_data, generated_data, event, pdf,
                   reference_hits, generated_hits, diff_hits>>
    /\ UNCHANGED notHits

\* lines 108-114: the document is opened, then the index is checked
CheckIndex ==
    /\ hpc = "check"
    /\ pdf' = TRUE
    /\ IF IsMultiIndex(reference_data.kind)
              /\ IsMultiIndex(generated_data.kind)
       THEN /\ hpc' = "compare"
            /\ UNCHANGED hraised
       ELSE /\ hraised' = "TypeError"
            /\ hpc' = "failed"
    /\ UNCHANGED <<reference_data, generated_data, event, size,
                   reference_hits, generated_hits, diff_hits>>
    /\ UNCHANGED notHits

\* lines 116-127
CompareHitCounts ==
    /\ hpc = "compare"
    /\ LET ref == IF event >= 0 THEN LocEvent(reference_data.rows, event)
                  ELSE reference_data.rows
           gen == IF event >= 0 THEN LocEvent(generated_data.rows, event)
                  ELSE generated_data.rows
       IN  IF event >= 0 /\ (ref = <<>> \/ gen = <<>>)
           THEN /\ hraised' = "KeyError"
                /\ hpc' = "failed"
                /\ UNCHANGED <<reference_data, generated_data,
                               reference_hits, generated_hits, diff_hits>>
           ELSE /\ reference_data' = [reference_data EXCEPT !.rows = ref]
                /\ generated_data' = [generated_data EXCEPT !.rows = gen]
                /\ reference_hits' = GroupByEventCount(ref)
                /\ generated_hits' = GroupByEventCount(gen)
                /\ diff_hits' = AbsDiffAligned(GroupByEventCount(ref),
                                               GroupByEventCount(gen))
                /\ hpc' = "compared"
                /\ UNCHANGED hraised
    /\ UNCHANGED <<event, size, pdf>>
    /\ UNCHANGED notHits

HitsNext ==
    \/ CountEvents
    \/ CheckIndex
    \/ CompareHitCounts

(***************************************************************************)
(* Reconstruction-performance comparison, one efficiency variable          *)
(* (validate_reconstruction_performance).                                  *)
(***************************************************************************)
\* a TEfficiency histogram never has more passed than total entries
PassedOf(total) == total - (total \div 10)

\* member(...).to_numpy(): the bin contents and the bin edges
Histogram(values) ==
    [values |-> values,
     edges |-> [i \in 1..(Len(values) + 1) |-> 2 * (i - 1)]]

NoHistogram == [values |-> <<>>, edges |-> <<>>]

\* array[mask]
Mask(array, mask) ==
    LET idx == {i \in 1..Len(array) : mask[i]}
    IN  [k \in 1..Cardinality(idx) |->
            array[CHOOSE i \in idx : Cardinality({j \in idx : j < i}) = k - 1]]

\* the edge mask with the last edge of the histogram in place of the edge
\* after the last kept bin
IndicesBinsLastEdge(ind) == Append(ind, TRUE)

\* lines 317-318: np.append(total > 0, False) and the edge after the last
\* kept bin set to True
IndicesBins(ind) ==
    LET last == MaxOf({i \in 1..Len(ind) : ind[i]})
    IN  [Append(ind, FALSE) EXCEPT ![last + 1] = TRUE]

\* the elementwise division of numpy: a zero divisor gives inf or nan
Quotient(p, t) ==
    [passed |-> p, total |-> t,
     value |-> IF t # 0 THEN "finite" ELSE IF p = 0 THEN "nan" ELSE "inf"]

Divide(passed, total) ==
    [i \in 1..Len(passed) |-> Quotient(passed[i], total[i])]

RecoIdle ==
    /\ reference_eff_passed = NoHistogram /\ reference_eff_total = NoHistogram
    /\ generated_eff_passed = NoHistogram /\ generated_eff_total = NoHistogram
    /\ indices = <<>> /\ indices_bins = <<>>
    /\ reference_passed = <<>> /\ reference_total = <<>>
    /\ generated_passed = <<>> /\ generated_total = <<>>
    /\ bins = <<>> /\ bin_centers = <<>> /\ bin_errors = <<>>
    /\ reference_efficiency = <<>> /\ generated_efficiency = <<>>
    /\ rpc = "idle" /\ rraised = ""

RecoInit ==
    /\ \E n \in 1..MaxBins :
          \E rt \in [1..n -> {0, 10, 20}] : \E gt \in [1..n -> {0, 10}] :
              /\ reference_eff_total = Histogram(rt)
              /\ reference_eff_passed =
                     Histogram([i \in 1..n |-> PassedOf(rt[i])])
              /\ generated_eff_total = Histogram(gt)
              /\ generated_eff_passed =
                     Histogram([i \in 1..n |-> PassedOf(gt[i])])
    /\ indices = <<>> /\ indices_bins = <<>>
    /\ reference_passed = <<>> /\ reference_total = <<>>
    /\ generated_passed = <<>> /\ generated_total = <<>>
    /\ bins = <<>> /\ bin_centers = <<>> /\ bin_errors = <<>>
    /\ reference_efficiency = <<>> /\ generated_efficiency = <<>>
    /\ rpc = "select" /\ rraised = ""

\* lines 316-328
SelectBins ==
    /\ rpc = "select"
    /\ LET ind == [i \in 1..Len(reference_eff_total.values) |->
                      reference_eff_total.values[i] > 0]
       IN  IF \A i \in 1..Len(ind) : ~ind[i]
           THEN /\ rraised' = "IndexError"
                /\ rpc' = "failed"
                /\ UNCHANGED <<indices, indices_bins, reference_passed,
                               reference_total, generated_passed,
                               generated_total>>
           ELSE /\ indices' = ind
                /\ indices_bins' = IndicesBins(ind)
                /\ reference_passed' = Mask(reference_eff_passed.values, ind)
                /\ reference_total' = Mask(reference_eff_total.values, ind)
                /\ generated_passed' = Mask(generated_eff_passed.values, ind)
                /\ generated_total' = Mask(generated_eff_total.values, ind)
                /\ rpc' = "bins"
                /\ UNCHANGED rraised
    /\ UNCHANGED <<reference_eff_passed, reference_eff_total,
                   generated_eff_passed, generated_eff_total,
                   bins, bin_centers, bin_errors,
                   reference_efficiency, generated_efficiency>>
    /\ UNCHANGED notReco

\* lines 330-332
ComputeBins ==
    /\ rpc = "bins"
    /\ LET b == Mask(reference_eff_total.edges, indices_bins)
           half == (b[2] - b[1]) \div 2
       IN  /\ bins' = b
           /\ bin_centers' = [i \in 1..(Len(b) - 1) |-> b[i + 1] - half]
           /\ bin_errors' = [i \in 1..Len(reference_total) |-> half]
    /\ rpc' = "efficiency"
    /\ UNCHANGED <<reference_eff_passed, reference_eff_total,
                   generated_eff_passed, generated_eff_total,
                   indices, indices_bins, reference_passed, reference_total,
                   generated_passed, generated_total,
                   reference_efficiency, generated_efficiency, rraised>>
    /\ UNCHANGED notReco

\* lines 343-350
ComputeEfficiencies ==
    /\ rpc = "efficiency"
    /\ reference_efficiency' = Divide(reference_passed, reference_total)
    /\ generated_efficiency' = Divide(generated_passed, generated_total)
    /\ rpc' = "done"
    /\ UNCHANGED <<reference_eff_passed, reference_eff_total,
                   generated_eff_passed, generated_eff_total,
                   indices, indices_bins, reference_passed, reference_total,
                   generated_passed, generated_total,
                   bins, bin_centers, bin_errors, rraised>>
    /\ UNCHANGED notReco

RecoNext ==
    \/ SelectBins
    \/ ComputeBins
    \/ ComputeEfficiencies

(***************************************************************************)
(* Properties of the exporter.                                             *)
(***************************************************************************)
RowsOfEvent(t, e) == {i \in 1..Len(t) : t[i].event_id = e}

EventIds(t) == {t[i].event_id : i \in 1..Len(t)}

ParticleOf(e) == particles[CHOOSE p \in 1..Len(particles) :
                               particles[p].event_id = e]

IsSorted(t) == \A i, j \in 1..Len(t) : i < j => ~KeyLess(t[j], t[i])

\* C1: in the table built by the exporter the (event_id, index) pairs are
\* unique and the index values of every event are exactly the contiguous
\* range 0..number_of_hits+1.
C1_IndexUniqueContiguous ==
    xpc = "merged" =>
        /\ \A i, j \in 1..Len(cat_data) :
               i # j => <<cat_data[i].event_id, cat_data[i].index>>
                            # <<cat_data[j].event_id, cat_data[j].index>>
        /\ \A e \in EventIds(cat_data) :
               {cat_data[i].index : i \in RowsOfEvent(cat_data, e)}
                   = 0..(ParticleOf(e).number_of_hits + 1)

\* the table is built from two events, one of them with several hits that
\* the hits file lists in descending order
C1_Witness ==
    /\ xpc = "merged"
    /\ Len(particles) = 2
    /\ \E k \in 1..(Len(hits) - 1) :
           /\ hits[k].event_id = hits[k + 1].event_id
           /\ hits[k].index > hits[k + 1].index

\* the rows of event e, in table order
EventRows(t, e) == LET InEvent(r) == r.event_id = e IN SelectSeq(t, InEvent)

\* the sensor of the hit of event e with 0-based trajectory index i
SensorOfHit(e, i) ==
    hits[CHOOSE k \in 1..Len(hits) :
             hits[k].event_id = e /\ hits[k].index = i].geometry_id

\* C2: an event with N real hits gives exactly N+2 rows, sorted by
\* (event_id, index): index 0 with geometry_id_start, indices 1..N with the
\* real sensor ids in hit order, index N+1 with geometry_id_end.
C2_ThreeRowGroups ==
    xpc = "merged" =>
        /\ IsSorted(cat_data)
        /\ \A e \in EventIds(particles) :
               LET N    == Cardinality(RowsOfEvent(hits, e))
                   rows == EventRows(cat_data, e)
               IN  /\ Len(rows) = N + 2
                   /\ rows[1].index = 0
                   /\ rows[1].geometry_id = geometry_id_start
                   /\ \A i \in 1..N :
                          /\ rows[i + 1].index = i
                          /\ rows[i + 1].geometry_id = SensorOfHit(e, i - 1)
                   /\ rows[N + 2].index = N + 1
                   /\ rows[N + 2].geometry_id = geometry_id_end

\* the end-to-end scenario: event 0 has three hits at sensors 101, 102, 103
\* and gives five rows
C2_Witness ==
    /\ xpc = "merged"
    /\ Len(EventRows(cat_data, 0)) = 5
    /\ [i \in 1..3 |-> EventRows(cat_data, 0)[i + 1].geometry_id] = SensorIds

\* C5: one quantization rule for the whole exported table: rows that carry
\* the same value in a column carry the same quantized value, whatever the
\* kind of row.
C5_OneQuantizationRule ==
    xpc = "merged" =>
        \A i, j \in 1..Len(cat_data) :
            cat_data[i].lx = cat_data[j].lx
                => cat_data[i].lxq = cat_data[j].lxq

(***************************************************************************)
(* Properties of the quantization.                                         *)
(***************************************************************************)
\* C4: quantization is idempotent, for the round-then-truncate rule of the
\* vertex rows and for the floor/ceil rule of the hit rows: quantizing a
\* quantized value gives the same value.
C4_QuantizationIdempotent ==
    /\ "vertex2" \in qpc => qvertex2 = qvertex
    /\ "hit2" \in qpc => qhit2 = qhit

(***************************************************************************)
(* Properties of the preprocessing.                                        *)
(***************************************************************************)
HasSentinelRow(t) == \E r \in 1..Len(t) : IsSentinel(t[r].geometry_id)

\* C3: after the preprocessing of the importer and of the validator no
\* remaining row has geometry_id equal to geometry_id_start or
\* geometry_id_end.
C3_NoSentinelRows ==
    ipc \in {"convert", "done", "failed"} => ~HasSentinelRow(data)

\* a stored table with a start-vertex row, an end-vertex row and a hit row
\* has been preprocessed and the hit row is left
C3_Witness ==
    /\ ipc = "done"
    /\ \E r \in 1..Len(store) : store[r].geometry_id = geometry_id_start
    /\ \E r \in 1..Len(store) : store[r].geometry_id = geometry_id_end
    /\ data # <<>>

\* C10: a geometry lookup failure during the importer's local-to-global
\* conversion is not fatal and is local to the failing row: the
\* preprocessing returns, the failing rows get substituted coordinates and
\* every other row keeps the coordinates the geometry returned for it.
C10_LookupFailureLocal ==
    (module = "importing" /\ ipc \in {"done", "failed"}) =>
        /\ ipc = "done"
        /\ Len(tx) = Len(data)
        /\ \A r \in 1..Len(data) :
               tx[r] = IF LookupSucceeds(data[r].geometry_id)
                       THEN LocalToGlobal(data[r].geometry_id, data[r].lxq)
                       ELSE SubstitutedZero

(***************************************************************************)
(* Properties of the hit-level comparison.                                 *)
(***************************************************************************)
CountOrZero(counts, e) == IF e \in DOMAIN counts THEN counts[e] ELSE 0

\* C6: an event that one of the two tables lacks counts as an event with 0
\* hits: the series of the absolute count differences has one entry per
\* reference event, and its value is the difference of the two counts.
C6_MissingEventsCountZero ==
    hpc = "compared" =>
        /\ DOMAIN diff_hits = DOMAIN reference_hits
        /\ \A e \in DOMAIN diff_hits :
               /\ ~diff_hits[e].nan
               /\ diff_hits[e].value =
                      Abs(CountOrZero(reference_hits, e)
                          - CountOrZero(generated_hits, e))

\* C9: the comparison of a table that is not indexed by the two-level key
\* (event_id, index) ends with a TypeError and with nothing else.
C9_TypeErrorOnIndex ==
    (/\ hpc \in {"failed", "compared"}
     /\ \/ reference_data.kind # "event_index"
        \/ generated_data.kind # "event_index")
        => hraised = "TypeError"

(***************************************************************************)
(* Properties of the reconstruction-performance comparison.                *)
(***************************************************************************)
KeptBins == {i \in 1..Len(reference_eff_total.values) :
                reference_eff_total.values[i] > 0}

\* C7: exactly the bins with a reference total > 0 are kept, with exactly
\* one more edge, the edge after the last kept bin; there are as many bin
\* centers, half-widths and efficiency values as kept bins.
C7_KeptBinsAndTrailingEdge ==
    rpc = "done" =>
        /\ reference_total = Mask(reference_eff_total.values,
               [i \in 1..Len(reference_eff_total.values) |-> i \in KeptBins])
        /\ Len(bins) = Cardinality(KeptBins) + 1
        /\ {bins[k] : k \in 1..Len(bins)} =
               {reference_eff_total.edges[i] : i \in KeptBins}
                   \cup {reference_eff_total.edges[MaxOf(KeptBins) + 1]}
        /\ Len(bin_centers) = Cardinality(KeptBins)
        /\ Len(bin_errors) = Cardinality(KeptBins)
        /\ Len(reference_efficiency) = Cardinality(KeptBins)
        /\ Len(generated_efficiency) = Cardinality(KeptBins)

\* the reference totals are 0, 10, 20, 0: bins 2 and 3 are kept, with
\* three edges
C7_Witness ==
    /\ rpc = "done"
    /\ reference_eff_total.values = <<0, 10, 20, 0>>
    /\ reference_total = <<10, 20>>
    /\ Len(bins) = 3

\* C8: no efficiency is computed with a zero total as the divisor, for the
\* reference series and for the generated series.
C8_NoZeroDivisor ==
    rpc = "done" =>
        /\ \A i \in 1..Len(reference_efficiency) :
               reference_efficiency[i].total # 0
        /\ \A i \in 1..Len(generated_efficiency) :
               generated_efficiency[i].total # 0

HasParticle(e) == \E p \in 1..Len(particles) : particles[p].event_id = e

\* C11: the join keeps every row of the merged table; a row whose event has
\* no particle row stays in the output with null particle_type and
\* number_of_hits, and every row (vertex or hit) of an event with a
\* particle row carries that particle's particle_type and number_of_hits.
C11_JoinKeepsOrphanRows ==
    xpc = "joined" =>
        /\ Len(output_data) = Len(cat_data)
        /\ \A i \in 1..Len(cat_data) :
              /\ output_data[i].event_id = cat_data[i].event_id
              /\ output_data[i].index = cat_data[i].index
              /\ output_data[i].geometry_id = cat_data[i].geometry_id
              /\ output_data[i].lxq = cat_data[i].lxq
              /\ IF HasParticle(cat_data[i].event_id)
                 THEN /\ ~output_data[i].common_null
                      /\ output_data[i].particle_type
                           = ParticleOf(cat_data[i].event_id).particle_type
                      /\ output_data[i].number_of_hits
                           = ParticleOf(cat_data[i].event_id).number_of_hits
                 ELSE output_data[i].common_null

\* the joined table holds an orphan hit row with null common columns, next
\* to a vertex row and a hit row of an event that has its particle
C11_Witness ==
    /\ xpc = "joined"
    /\ \E i \in 1..Len(output_data) : output_data[i].common_null
    /\ \E i, j \in 1..Len(output_data) :
          /\ output_data[i].event_id = output_data[j].event_id
          /\ ~output_data[i].common_null
          /\ output_data[i].index = 0
          /\ output_data[j].index = 1
          /\ output_data[j].geometry_id \notin
                 {geometry_id_start, geometry_id_end}

\* the number of hits the hits file holds for event e
HitCount(e) == Cardinality({k \in 1..Len(hits) : hits[k].event_id = e})

\* how many events of the batch have c hits
HitCountFrequency(c) ==
    Cardinality({p \in 1..Len(particles) :
                    HitCount(particles[p].event_id) = c})

\* the events of the batch with the hit count that was selected
RetainedEvents ==
    {particles[p].event_id : p \in
        {q \in 1..Len(particles) :
            HitCount(particles[q].event_id) = wanted_length - 2}}

\* the rows of the joined table that belong to retained events, in order
RetainedRows ==
    LET Retained(row) == row.event_id \in RetainedEvents
    IN  SelectSeq(cat_data, Retained)

\* C12: with fixed-length export the table holds exactly the events whose
\* hit count is the most frequent hit count of the batch: each of them has
\* that many rows plus the two vertex rows, and every event with another
\* hit count is gone with all its rows.
C12_FixedLengthKeepsModalEvents ==
    (xpc = "filtered" /\ fixed_length) =>
        /\ \A c \in 0..MaxHits :
               HitCountFrequency(c) <= HitCountFrequency(wanted_length - 2)
        /\ Len(output_data) = Len(RetainedRows)
        /\ Len(output_data) = Cardinality(RetainedEvents) * wanted_length
        /\ \A i \in 1..Len(output_data) :
              /\ output_data[i].index = RetainedRows[i].index
              /\ output_data[i].geometry_id = RetainedRows[i].geometry_id
              /\ output_data[i].number_of_hits = wanted_length - 2
        /\ \A e \in EventIds(output_data) :
               Cardinality(RowsOfEvent(output_data, e)) = wanted_length

\* a batch of three events, two of them with the same positive hit count
\* and one with another: the two are kept, the third is discarded
C12_Witness ==
    /\ xpc = "filtered" /\ fixed_length
    /\ Len(particles) = 3
    /\ wanted_length > 2
    /\ Cardinality(RetainedEvents) = 2
    /\ Len(output_data) = 2 * wanted_length
    /\ Len(cat_data) > Len(output_data)

\* C13: after the fixed-length filter leaves M events, the event ids of the
\* table are exactly 0..M-1, one new id per retained event, in the order of
\* the old ids, and the rows of every event keep their place, their
\* intra-event index and their columns.
C13_EventIndexRelabelled ==
    (xpc = "filtered" /\ fixed_length) =>
        /\ EventIds(output_data) = 0..(Cardinality(RetainedEvents) - 1)
        /\ Len(output_data) = Len(RetainedRows)
        /\ \A i, j \in 1..Len(output_data) :
              /\ (output_data[i].event_id = output_data[j].event_id)
                   <=> (RetainedRows[i].event_id = RetainedRows[j].event_id)
              /\ (output_data[i].event_id < output_data[j].event_id)
                   <=> (RetainedRows[i].event_id < RetainedRows[j].event_id)
        /\ \A i \in 1..Len(output_data) :
              /\ output_data[i].index = RetainedRows[i].index
              /\ output_data[i].geometry_id = RetainedRows[i].geometry_id
              /\ output_data[i].lxq = RetainedRows[i].lxq
              /\ output_data[i].lyq = RetainedRows[i].lyq
              /\ output_data[i].tpxq = RetainedRows[i].tpxq
              /\ output_data[i].tpyq = RetainedRows[i].tpyq
              /\ output_data[i].tpzq = RetainedRows[i].tpzq

\* two events are retained and the first event of the batch is not one of
\* them, so both get a new id
C13_Witness ==
    /\ xpc = "filtered" /\ fixed_length
    /\ Len(particles) = 3
    /\ RetainedEvents = {1, 2}
    /\ EventIds(output_data) = {0, 1}
    /\ wanted_length > 2

\* the sum of column c over the first n rows of the published table, in
\* units of 0.01, and the sum of the squares
RECURSIVE CentiSum(_, _)
CentiSum(c, n) ==
    IF n = 0 THEN 0 ELSE CentiOf(hdf.hits[n][c]) + CentiSum(c, n - 1)

RECURSIVE CentiSquares(_, _)
CentiSquares(c, n) ==
    IF n = 0 THEN 0
    ELSE CentiOf(hdf.hits[n][c]) * CentiOf(hdf.hits[n][c])
             + CentiSquares(c, n - 1)

\* C14: the Metadata table has one row for each floating-point column of
\* the published table (the five quantized columns, in column order) and
\* none for geometry_id and particle_type; a row holds the column's min,
\* max, mean and sample standard deviation over all rows of the table, and
\* a column [1.0, 2.0, 3.0] gives min 1.0, max 3.0, mean 2.0, std 1.0.
C14_MetadataPerFloatColumn ==
    /\ ColumnStats(<<100, 200, 300>>)
           = [min |-> 100, max |-> 300,
              mean |-> [num |-> 2 * 100 * 3, den |-> 3],
              std |-> [num |-> 100 * 100 * 6, den |-> 6]]
    /\ xpc = "exported" =>
          LET n == Len(hdf.hits)
          IN  /\ [k \in 1..Len(hdf.metadata) |-> hdf.metadata[k].label]
                     = <<"lxq", "lyq", "tpxq", "tpyq", "tpzq">>
              /\ \A k \in 1..Len(hdf.metadata) :
                    LET c == hdf.metadata[k].label
                        m == hdf.metadata[k].stats
                    IN  /\ c \notin {"geometry_id", "particle_type"}
                        /\ \A r \in 1..n :
                              /\ m.min <= CentiOf(hdf.hits[r][c])
                              /\ CentiOf(hdf.hits[r][c]) <= m.max
                        /\ \E r \in 1..n : m.min = CentiOf(hdf.hits[r][c])
                        /\ \E r \in 1..n : m.max = CentiOf(hdf.hits[r][c])
                        /\ m.mean = [num |-> CentiSum(c, n), den |-> n]
                        /\ m.std.den = n * (n - 1)
                        /\ m.std.num = n * CentiSquares(c, n)
                                         - CentiSum(c, n) * CentiSum(c, n)

\* a published table of two events with hits, whose lxq column has
\* different values
C14_Witness ==
    /\ xpc = "exported"
    /\ Len(particles) >= 2
    /\ Len(hdf.hits) >= 6
    /\ Len(hdf.metadata) = 5
    /\ hdf.metadata[1].stats.min < hdf.metadata[1].stats.max
    /\ hdf.metadata[1].stats.std.num > 0

\* C17: in every end-vertex row tz, lx and ly are equal to the row's tx,
\* which is the particle's vx, while ty, tpx, tpy and tpz hold the
\* particle's vy, px, py and pz.
C17_EndVertexColumns ==
    xpc # "particles" =>
        /\ Len(particles_data_vertex_end) = Len(particles)
        /\ \A r \in 1..Len(particles_data_vertex_end) :
              LET row == particles_data_vertex_end[r]
                  p   == ParticleOf(row.event_id)
              IN  /\ row.geometry_id = geometry_id_end
                  /\ row.tx = p.vx
                  /\ row.tz = row.tx /\ row.lx = row.tx /\ row.ly = row.tx
                  /\ row.ty = p.vy
                  /\ row.tpx = p.px /\ row.tpy = p.py /\ row.tpz = p.pz

\* the end-vertex rows of two particles with different kinematics, whose
\* vz differs from their vx
C17_Witness ==
    /\ xpc = "hits"
    /\ Len(particles_data_vertex_end) = 2
    /\ particles_data_vertex_end[1].tx # particles_data_vertex_end[2].tx
    /\ \A r \in 1..2 :
          /\ particles_data_vertex_end[r].tz
                 # ParticleOf(particles_data_vertex_end[r].event_id).vz
          /\ particles_data_vertex_end[r].tz = particles_data_vertex_end[r].tx

\* the stored row of a table that a row of the imported frame comes from
StoredRowOf(table, row) ==
    table.rows[CHOOSE r \in 1..Len(table.rows) :
                   table.rows[r].label = row.label]

\* tpx, tpy, tpz of an imported frame: the quantized value, less the delta
\* correction when the table stores one
MomentaReconstructed(table, frame) ==
    /\ Len(frame) = Len(DropSentinelRows(table.rows))
    /\ \A r \in 1..Len(frame) :
          LET st == StoredRowOf(table, frame[r])
              withDelta == DeltaColumns \subseteq table.columns
          IN  /\ frame[r].tpx
                   = st.tpxq - (IF withDelta THEN st.deltapxq ELSE 0)
              /\ frame[r].tpy
                   = st.tpyq - (IF withDelta THEN st.deltapyq ELSE 0)
              /\ frame[r].tpz
                   = st.tpzq - (IF withDelta THEN st.deltapzq ELSE 0)

QuantizedColumnAbsent(table) ==
    ~(QuantizedColumns \subseteq table.columns)

\* C15: the importer subtracts the delta correction only if the table
\* stores it: for tables that hold every quantized column the import
\* succeeds, with tpx = tpxq - deltapxq where the delta columns are stored
\* and tpx = tpxq where they are not (likewise tpy, tpz).
C15_DeltaSubtractedIfPresent ==
    (/\ mpc \in {"done", "failed"}
     /\ ~QuantizedColumnAbsent(file.reference_data)
     /\ ~QuantizedColumnAbsent(file.generated_data)) =>
        /\ mpc = "done"
        /\ MomentaReconstructed(file.reference_data, reference)
        /\ MomentaReconstructed(file.generated_data, generated)

\* C16: when a required quantized column (lxq, lyq, tpxq, tpyq, tpzq) is
\* absent from one of the two tables, the import ends with the
\* missing-column error, which names a column the table lacks, and at no
\* point writes a hits output file.
C16_MissingColumnFailsWithoutOutput ==
    (mpc # "idle" /\ (\/ QuantizedColumnAbsent(file.reference_data)
                      \/ QuantizedColumnAbsent(file.generated_data))) =>
        /\ written = {}
        /\ mpc \in {"reference", "generated", "failed"}
        /\ mpc = "failed" =>
              /\ mraised = "KeyError"
              /\ IF reference = <<>>
                 THEN mkey \in {RequiredColumns[i] :
                                   i \in 1..Len(RequiredColumns)}
                                 \ file.reference_data.columns
                 ELSE mkey \in {RequiredColumns[i] :
                                   i \in 1..Len(RequiredColumns)}
                                 \ file.generated_data.columns

\* the reference table is complete and has been preprocessed, the
\* generated table lacks tpzq: the import has failed on it
C16_Witness ==
    /\ mpc = "failed"
    /\ reference # <<>>
    /\ FirstMissing(file.reference_data.columns) = ""
    /\ file.generated_data.columns
           = {RequiredColumns[i] : i \in 1..Len(RequiredColumns)} \ {"tpzq"}
    /\ mkey = "tpzq"
    /\ written = {}

\* C18: for geometry_id 0 global_to_local returns two zeros and
\* local_to_global three zeros, whatever the coordinates, and the converter
\* is not called; for every other geometry_id the value returned is the
\* one the converter's method returns for the same arguments.
C18_SentinelShortCircuit ==
    called # <<>> =>
        IF called[2] = 0
        THEN returned = ReturnedZeros(IF called[1] = "global_to_local"
                                      THEN 2 ELSE 3)
        ELSE returned = ReturnedByConverter(
                            coordinates_converter,
                            IF called[1] = "global_to_local"
                            THEN "globalToLocal" ELSE "localToGlobal",
                            Tail(called))

\* a call with geometry_id 0 and nonzero coordinates that came back with
\* zeros, after a call that the converter served
C18_Witness ==
    /\ calls >= 2
    /\ converter_calls = calls - 1
    /\ called[1] = "global_to_local" /\ called[2] = 0
    /\ called[3] # 0
    /\ returned.zeros = 2 /\ returned.by = 0

\* C19: in one process the converter is built at most once, however many
\* imports and conversion calls are made, and once coordinates_converter is
\* bound it is never bound to another object.
C19_ConverterInitialisedOnce ==
    [][/\ converters_built' <= 1
       /\ coordinates_converter # 0
             => coordinates_converter' = coordinates_converter
       /\ returned'.by # 0 => returned'.by = 1]_vars

\* several import statements and several calls served by the converter in
\* one process, with one converter built
C19_Witness ==
    /\ imports = MaxImports
    /\ converter_calls >= 2
    /\ converters_built = 1
    /\ coordinates_converter = 1

\* K + 1 - 2^-40, K + 2^-40 and K - 2^-40 for a natural K (K >= 1 in the
\* last), as floats
BelowNext(K) == MkFloat(FALSE, BitsOfNat(K) \o [i \in 1..40 |-> 1], -40)

JustAbove(K) ==
    MkFloat(FALSE, BitsOfNat(K) \o [i \in 1..39 |-> 0] \o <<1>>, -40)

JustBelow(K) == MkFloat(FALSE, BitsOfNat(K - 1) \o [i \in 1..40 |-> 1], -40)

\* |x - q| < 0.01, shown on the exact products a = 100 x and b = 100 q:
\* with K the integer part of |a|, |a| < K + 1 - 2^-40 and
\* K - 2^-40 < |b| < K + 2^-40, and x and q have the same sign
WithinResolution(x, q) ==
    LET a == FlMul(x, 100, Float64Prec)
        b == FlMul(q, 100, 64)
        K == FlAbsTrunc(a)
    IN  /\ q.bits # <<>> => q.neg = x.neg
        /\ FlMagLess(a, BelowNext(K))
        /\ FlMagLess(b, JustAbove(K))
        /\ K > 0 => FlMagLess(JustBelow(K), b)

\* C20: the local coordinate the importer works with (lx = lxq of the
\* exported hit row) differs from the original coordinate of the hit by
\* less than 0.01; the momentum columns are quantized by the same rule.
C20_RoundTripWithinResolution ==
    "import" \in qpc => WithinResolution(qin, qlx)

\* a negative coordinate off the 0.01 grid has been exported and imported
C20_Witness ==
    /\ "import" \in qpc
    /\ qin.neg /\ qlx.neg
    /\ qlx # qin
    /\ FlAbsTrunc(FlMul(qin, 100, Float64Prec)) >= 10

(***************************************************************************)
(* The `config` command of the command line application.                   *)
(***************************************************************************)
MaxInvocations == 2

\* Path("config.toml") is the default of the option and of TyperState; the
\* other two are the paths the tests put into the environment variable.
ConfigPaths ==
    {"config.toml", "tests/resources/config.toml",
     "tests/resources/missing.toml"}

\* What is at a path: nothing, a TOML document, the document written by
\* generate_empty, or bytes that tomllib cannot parse.
FileStates == {"absent", "valid", "generated", "invalid"}

Subcommands == {"config", "generate"}

TyperState == [config_file |-> "config.toml", debug |-> FALSE]

\* logger.error_panel returns Exit(1); an uncaught exception ends the
\* process with code 1 as well.
error_panel == 1

\* GlobalConfiguration.__init__: opens and parses the file; the exit code
\* the constructor leaves the process with (0 when it returns).
GlobalConfiguration(files, location) ==
    IF files[location] \in {"valid", "generated"} THEN 0 ELSE 1

config_missing == error_panel

\* GlobalConfiguration.load: <<files afterwards, exit code>>.
load(files, st) ==
    IF files[st.config_file] = "absent"
    THEN <<files, config_missing>>
    ELSE <<files, GlobalConfiguration(files, st.config_file)>>

\* generate_empty with the dump of the document left out.
generate_empty_unwritten(files, location) ==
    IF files[location] # "absent"
    THEN <<files, error_panel>>
    ELSE <<files, GlobalConfiguration(files, location)>>

\* GlobalConfiguration.generate_empty: <<files afterwards, exit code>>.
generate_empty(files, location) ==
    IF files[location] # "absent"
    THEN <<files, error_panel>>
    ELSE LET dumped == [files EXCEPT ![location] = "generated"]
         IN  <<dumped, GlobalConfiguration(dumped, location)>>

ConfigIdle ==
    /\ config = "config.toml" /\ debug = FALSE /\ generate = FALSE
    /\ invoked_subcommand = "config" /\ help = FALSE
    /\ filesystem = [p \in ConfigPaths |-> "absent"]
    /\ state = TyperState /\ exit_code = -1 /\ invocations = 0
    /\ cpc = "idle"

ConfigInit ==
    /\ config \in ConfigPaths /\ debug \in BOOLEAN /\ generate \in BOOLEAN
    /\ invoked_subcommand \in Subcommands /\ help \in BOOLEAN
    /\ filesystem \in [ConfigPaths -> FileStates \ {"generated"}]
    /\ state = TyperState /\ exit_code = -1 /\ invocations = 1
    /\ cpc = "callback"

\* The application callback `main`.
MainCallback ==
    /\ cpc = "callback"
    /\ IF invoked_subcommand # "config" /\ filesystem[config] = "absent"
       THEN IF help
            THEN /\ cpc' = "command"
                 /\ UNCHANGED <<state, exit_code>>
            ELSE /\ exit_code' = config_missing
                 /\ cpc' = "done"
                 /\ UNCHANGED state
       ELSE /\ state' = [config_file |-> config, debug |-> debug]
            /\ cpc' = "command"
            /\ UNCHANGED exit_code
    /\ UNCHANGED <<config, debug, generate, invoked_subcommand, help,
                   filesystem, invocations>>
    /\ UNCHANGED notConfig

\* The command `config`.
ConfigCommand ==
    /\ cpc = "command" /\ invoked_subcommand = "config"
    /\ LET outcome == IF generate
                      THEN generate_empty(filesystem, state.config_file)
                      ELSE load(filesystem, state)
       IN  /\ filesystem' = outcome[1]
           /\ exit_code' = outcome[2]
    /\ cpc' = "done"
    /\ UNCHANGED <<config, debug, generate, invoked_subcommand, help,
                   state, invocations>>
    /\ UNCHANGED notConfig

\* Any other command: its body is outside this part of the model.
OtherCommand ==
    /\ cpc = "command" /\ invoked_subcommand # "config"
    /\ cpc' = "dispatched"
    /\ UNCHANGED <<config, debug, generate, invoked_subcommand, help,
                   filesystem, state, exit_code, invocations>>
    /\ UNCHANGED notConfig

\* The next process: fresh options and a fresh TyperState, the files as the
\* previous process left them.
Invoke ==
    /\ cpc \in {"done", "dispatched"}
    /\ invocations < MaxInvocations
    /\ invocations' = invocations + 1
    /\ config' \in ConfigPaths /\ debug' \in BOOLEAN
    /\ generate' \in BOOLEAN
    /\ invoked_subcommand' \in Subcommands /\ help' \in BOOLEAN
    /\ state' = TyperState /\ exit_code' = -1
    /\ cpc' = "callback"
    /\ UNCHANGED filesystem
    /\ UNCHANGED notConfig

ConfigNext ==
    \/ MainCallback
    \/ ConfigCommand
    \/ OtherCommand
    \/ Invoke

\* C21: the `config` command never succeeds on a missing configuration file
\* without creating it.  The callback lets the command through whatever is
\* at the path; without --generate on a missing file the process exits
\* with code 1 and the file stays absent; with --generate on a missing file
\* the file is created and the exit code is 0; without --generate on an
\* existing valid file the exit code is 0.
C21_ConfigNeverSucceedsOnMissingFile ==
    [][/\ (cpc = "callback" /\ invoked_subcommand = "config")
            => (cpc' = "command" /\ state'.config_file = config)
       /\ (cpc = "command" /\ invoked_subcommand = "config")
            => LET before == filesystem[state.config_file]
                   after == filesystem'[state.config_file]
               IN  /\ cpc' = "done"
                   /\ (before = "absent" /\ ~generate)
                        => (exit_code' = 1 /\ after = "absent")
                   /\ (before = "absent" /\ generate)
                        => (exit_code' = 0 /\ after # "absent")
                   /\ (before \in {"valid", "generated"} /\ ~generate)
                        => exit_code' = 0
                   /\ exit_code' = 0 => after # "absent"]_vars

C21_Witness ==
    /\ cpc = "done" /\ invoked_subcommand = "config" /\ generate
    /\ exit_code = 0
    /\ filesystem[state.config_file] = "generated"
    /\ state.config_file = "tests/resources/missing.toml"

(***************************************************************************)
(* Parallel event generation and simulation (scheduling/generation.py and  *)
(* scheduling/simulation.py).                                              *)
(***************************************************************************)
MIN_EVENTS_PER_PROCESS == 100000

MAX_EVENTS_PER_MERGE == 1000000

MaxEventUnits == 12

MaxProcesses == 4

MaxMissingMarkers == 1

EventUnit == MAX_EVENTS_PER_MERGE \div 4

EventOffsets == {0, 1, 50000}

\* the configured numbers of events: multiples of a quarter of a merged
\* file, one more event, and 50000 more events
EventCounts ==
    {u * EventUnit + d : u \in 0..MaxEventUnits, d \in EventOffsets}

\* (task_id, events, skip) as the command line passes it: no task id, or
\* one of the shards of 100000 events
RunTasks ==
    {<<-1, 0, 0>>, <<0, MIN_EVENTS_PER_PROCESS, 0>>,
     <<1, MIN_EVENTS_PER_PROCESS, MIN_EVENTS_PER_PROCESS>>}

\* njobs = events // MIN_EVENTS_PER_PROCESS, capped by the processes
\* unless the jobs go to SLURM
Njobs(ev, procs, sl) ==
    LET n == ev \div MIN_EVENTS_PER_PROCESS
    IN  IF sl THEN n ELSE MinOf({procs, n})

\* the "enough events" check: simulation skips it for SLURM
NotEnoughEvents(st, ev, n, sl) ==
    /\ (st = "simulation" => ~sl)
    /\ (n <= 1 \/ ev < MIN_EVENTS_PER_PROCESS)

\* range(0, events, chunksize)
Begins(ev, chunk) ==
    [i \in 1..((ev + chunk - 1) \div chunk) |-> (i - 1) * chunk]

\* [min(b + chunksize, events) for b in begins]
Ends(b, ev, chunk) ==
    [i \in 1..Len(b) |-> MinOf({b[i] + chunk, ev})]

\* zip(ids, begins, ends): the tuples up to the shortest argument
Zip(n, b, e) ==
    [i \in 1..MinOf({n, Len(b)}) |-> <<i - 1, b[i], e[i]>>]

\* run_simulation_range: the merged input file and what is read from it
run_simulation_range(begin_event, end_event) ==
    LET input_number == begin_event \div MAX_EVENTS_PER_MERGE
    IN  [input_number |-> input_number,
         events |-> end_event - begin_event,
         skip |-> begin_event - input_number * MAX_EVENTS_PER_MERGE]

\* merge_results: the shards whose files are the inputs of merged file
\* `index`, files[files_per_merge * (index - 1) : files_per_merge * index]
merge_results(index, n, n_merge) ==
    LET files_per_merge == n \div n_merge
    IN  {i \in 0..(n - 1) :
            /\ files_per_merge * (index - 1) <= i
            /\ i < files_per_merge * index}

ScheduleLocalsUnset ==
    /\ njobs = -1 /\ chunksize = -1 /\ begins = <<>> /\ ends = <<>>
    /\ submit_script = FALSE /\ run_scripts = <<>> /\ started = <<>>
    /\ merged_inputs = <<>> /\ run_directory = "present"
    /\ error_log = "" /\ sraised = "none"

ScheduleIdle ==
    /\ stage = "generation" /\ events = 0 /\ processes = 1
    /\ slurm = FALSE /\ postprocess = FALSE /\ run_task = <<-1, 0, 0>>
    /\ success = 0 /\ shard_outputs = {}
    /\ ScheduleLocalsUnset
    /\ spc = "idle"

\* One call.  A postprocess call finds the SUCCESS markers and the outputs
\* of the jobs that completed: all of them but up to MaxMissingMarkers.
ScheduleInit ==
    /\ stage \in {"generation", "simulation"}
    /\ events \in EventCounts
    /\ processes \in 1..MaxProcesses
    /\ slurm \in BOOLEAN /\ postprocess \in BOOLEAN
    /\ run_task \in RunTasks
    /\ success \in
         IF postprocess
         THEN {n \in 0..(events \div MIN_EVENTS_PER_PROCESS) :
                 n + MaxMissingMarkers >= events \div MIN_EVENTS_PER_PROCESS}
         ELSE {0}
    /\ shard_outputs = 0..(success - 1)
    /\ ScheduleLocalsUnset
    /\ spc = "start"

\* run_*_multiprocess up to the computation of the event ranges.
Schedule ==
    /\ spc = "start"
    /\ IF postprocess /\ ~slurm
       THEN /\ error_log' = "Postprocessing can only be run with SLURM."
            /\ spc' = "done"
            /\ UNCHANGED <<njobs, chunksize, begins, ends, started,
                           shard_outputs, sraised>>
       ELSE IF run_task[1] >= 0
       THEN /\ started' =
                 <<<<run_task[1], run_task[3], run_task[3] + run_task[2]>>>>
            /\ shard_outputs' = shard_outputs \cup {run_task[1]}
            /\ spc' = "done"
            /\ UNCHANGED <<njobs, chunksize, begins, ends, error_log,
                           sraised>>
       ELSE LET n == Njobs(events, processes, slurm)
            IN  IF NotEnoughEvents(stage, events, n, slurm)
                THEN /\ sraised' = "ValueError"
                     /\ spc' = "done"
                     /\ UNCHANGED <<njobs, chunksize, begins, ends,
                                    started, shard_outputs, error_log>>
                ELSE IF n = 0
                THEN /\ sraised' = "ZeroDivisionError"
                     /\ spc' = "done"
                     /\ UNCHANGED <<njobs, chunksize, begins, ends,
                                    started, shard_outputs, error_log>>
                ELSE /\ njobs' = n
                     /\ chunksize' = events \div n
                     /\ begins' = Begins(events, events \div n)
                     /\ ends' = Ends(Begins(events, events \div n),
                                     events, events \div n)
                     /\ spc' = IF slurm /\ postprocess
                               THEN "validate" ELSE "dispatch"
                     /\ UNCHANGED <<started, shard_outputs, error_log,
                                    sraised>>
    /\ UNCHANGED <<stage, events, processes, slurm, postprocess, run_task,
                   success, submit_script, run_scripts, merged_inputs,
                   run_directory>>
    /\ UNCHANGED notSchedule

\* if slurm: if not postprocess: the submission script and one run script
\* per tuple of zip(ids, begins, ends, strict=True).
PrepareSlurmJobs ==
    /\ spc = "dispatch" /\ slurm
    /\ submit_script' = TRUE
    /\ run_scripts' = Zip(njobs, begins, ends)
    /\ sraised' = IF Len(begins) # njobs THEN "ValueError" ELSE "none"
    /\ spc' = "done"
    /\ UNCHANGED <<stage, events, processes, slurm, postprocess, run_task,
                   success, njobs, chunksize, begins, ends, started,
                   shard_outputs, merged_inputs, run_directory, error_log>>
    /\ UNCHANGED notSchedule

\* else: Pool(processes).starmap over zip(ids, begins, ends): starmap makes
\* a list of the zip before it hands anything out, strict=True in the
\* generation, strict=False in the simulation.
SpawnProcesses ==
    /\ spc = "dispatch" /\ ~slurm
    /\ IF stage = "generation" /\ Len(begins) # njobs
       THEN /\ sraised' = "ValueError"
            /\ spc' = "done"
            /\ UNCHANGED <<started, shard_outputs>>
       ELSE /\ started' = Zip(njobs, begins, ends)
            /\ shard_outputs' =
                 {Zip(njobs, begins, ends)[i][1] :
                     i \in 1..Len(Zip(njobs, begins, ends))}
            /\ spc' = "validate"
            /\ UNCHANGED sraised
    /\ UNCHANGED <<stage, events, processes, slurm, postprocess, run_task,
                   success, njobs, chunksize, begins, ends, submit_script,
                   run_scripts, merged_inputs, run_directory, error_log>>
    /\ UNCHANGED notSchedule

\* ValidateOutputs without the count of the SUCCESS markers
ValidateOutputsUncounted ==
    /\ spc = "validate"
    /\ spc' = "merge"
    /\ UNCHANGED <<stage, events, processes, slurm, postprocess, run_task,
                   success, njobs, chunksize, begins, ends, submit_script,
                   run_scripts, started, shard_outputs, merged_inputs,
                   run_directory, sraised, error_log>>
    /\ UNCHANGED notSchedule

\* validate outputs: the SUCCESS markers are counted for SLURM only.
ValidateOutputs ==
    /\ spc = "validate"
    /\ IF slurm /\ success # njobs
       THEN /\ error_log' = "Some jobs did not complete successfully."
            /\ spc' = "done"
       ELSE /\ spc' = "merge"
            /\ UNCHANGED error_log
    /\ UNCHANGED <<stage, events, processes, slurm, postprocess, run_task,
                   success, njobs, chunksize, begins, ends, submit_script,
                   run_scripts, started, shard_outputs, merged_inputs,
                   run_directory, sraised>>
    /\ UNCHANGED notSchedule

\* merge outputs: njobs_merge, files_per_merge and the pool of
\* merge_results calls.  hadd runs with check=True; what it does with an
\* empty list of inputs is left open.
MergeOutputs ==
    /\ spc = "merge"
    /\ LET njobs_merge == events \div MAX_EVENTS_PER_MERGE
       IN  IF njobs_merge = 0
           THEN /\ sraised' = "ZeroDivisionError"
                /\ spc' = "done"
                /\ UNCHANGED merged_inputs
           ELSE LET inputs == [index \in 1..njobs_merge |->
                                 merge_results(index, njobs, njobs_merge)]
                IN  \/ /\ merged_inputs' = inputs
                       /\ spc' = "cleanup"
                       /\ UNCHANGED sraised
                    \/ /\ \E index \in 1..njobs_merge : inputs[index] = {}
                       /\ sraised' = "CalledProcessError"
                       /\ spc' = "done"
                       /\ UNCHANGED merged_inputs
    /\ UNCHANGED <<stage, events, processes, slurm, postprocess, run_task,
                   success, njobs, chunksize, begins, ends, submit_script,
                   run_scripts, started, shard_outputs, run_directory,
                   error_log>>
    /\ UNCHANGED notSchedule

\* rm_tree(output_path / "run")
RemoveRunDirectory ==
    /\ spc = "cleanup"
    /\ run_directory' = "deleted"
    /\ shard_outputs' = {}
    /\ spc' = "done"
    /\ UNCHANGED <<stage, events, processes, slurm, postprocess, run_task,
                   success, njobs, chunksize, begins, ends, submit_script,
                   run_scripts, started, merged_inputs, error_log, sraised>>
    /\ UNCHANGED notSchedule

ScheduleNext ==
    \/ Schedule
    \/ PrepareSlurmJobs
    \/ SpawnProcesses
    \/ ValidateOutputs
    \/ MergeOutputs
    \/ RemoveRunDirectory

\* the event ranges handed to the jobs: the arguments of the pool's calls,
\* or the ranges written into the run scripts
DispatchedRanges == IF slurm THEN run_scripts ELSE started

\* the call is past its dispatch step with ranges computed from events
DispatchAttempted ==
    /\ run_task[1] < 0 /\ ~postprocess /\ chunksize > 0
    /\ spc \notin {"start", "dispatch"}

\* C22: whenever the parallel run dispatches shards, the ranges
\* [begin, end) handed to the jobs partition [0, events): exactly njobs
\* ranges, the first beginning at 0, each one non-empty and ending where
\* the next begins, the last ending at events; for every events/processes
\* combination that passes the "enough events" check.
C22_RangesPartitionEvents ==
    DispatchAttempted =>
        LET r == DispatchedRanges
        IN  /\ sraised = "none"
            /\ Len(r) = njobs
            /\ r[1][2] = 0
            /\ \A i \in 1..Len(r) : r[i][2] < r[i][3]
            /\ \A i \in 1..(Len(r) - 1) : r[i][3] = r[i + 1][2]
            /\ r[Len(r)][3] = events

\* the merged files that take the output of shard i as an input
MergedFilesOf(inputs, i) == {index \in DOMAIN inputs : i \in inputs[index]}

\* C23: whenever the run reaches its merge step after all njobs shards
\* have completed, the merge step completes and the output of every shard
\* proc_0..proc_{njobs-1} is an input of exactly one merged file before the
\* run directory is deleted; no shard output is deleted unmerged.
C23_EveryShardMergedBeforeDeletion ==
    [][/\ spc = "merge" =>
            /\ spc' = "cleanup" /\ sraised' = "none"
            /\ \A i \in 0..(njobs - 1) :
                  Cardinality(MergedFilesOf(merged_inputs', i)) = 1
       /\ (run_directory = "present" /\ run_directory' = "deleted") =>
            \A i \in shard_outputs :
                Cardinality(MergedFilesOf(merged_inputs, i)) = 1]_vars

\* nothing below the run directory has changed since the call began
RunDirectoryUntouched ==
    /\ shard_outputs = 0..(success - 1)
    /\ merged_inputs = <<>> /\ run_directory = "present"
    /\ started = <<>>

C24_WitnessMissingMarker ==
    /\ slurm /\ postprocess /\ spc = "done"
    /\ success = njobs - 1
    /\ error_log = "Some jobs did not complete successfully."

\* C25: every simulation shard [begin_event, end_event) the scheduler
\* dispatches reads its events from a single merged input file: with
\* input_number and skip as run_simulation_range computes them,
\* skip + (end_event - begin_event) <= MAX_EVENTS_PER_MERGE.
C25_ShardWithinOneInputFile ==
    (stage = "simulation" /\ run_task[1] < 0) =>
        \A i \in 1..Len(DispatchedRanges) :
            LET read == run_simulation_range(DispatchedRanges[i][2],
                                             DispatchedRanges[i][3])
            IN  read.skip + read.events <= MAX_EVENTS_PER_MERGE

(***************************************************************************)
(* export_hits (data/export.py): one call per input file.                  *)
(***************************************************************************)
MaxFiles == 4

\* the file numbers a task id can name
FileNumbers == 1..(MaxFiles + 1)

\* the test of the task id with the last file counted as out of range
TaskIdTooLargeInclusive(task, files) == task >= files

\* if task_id > nfiles
TaskIdTooLarge(task, files) == task > files

DispatchIdle ==
    /\ nfiles = 0 /\ task_id = -1 /\ export_slurm = FALSE
    /\ pool_tasks = {} /\ exported_files = [i \in FileNumbers |-> 0]
    /\ export_run_scripts = {} /\ export_submit_script = FALSE
    /\ dpc = "idle" /\ draised = "none"

\* one call: nfiles hits/*.root files, a task id (-1 when none is given)
DispatchInit ==
    /\ nfiles \in 0..MaxFiles
    /\ task_id \in -1..(MaxFiles + 1)
    /\ export_slurm \in BOOLEAN
    /\ pool_tasks = {} /\ exported_files = [i \in FileNumbers |-> 0]
    /\ export_run_scripts = {} /\ export_submit_script = FALSE
    /\ dpc = "start" /\ draised = "none"

\* export_hits up to the hand-over of the tasks to the pool.
ExportHits ==
    /\ dpc = "start"
    /\ IF export_slurm
       THEN /\ export_submit_script' = TRUE
            /\ export_run_scripts' = 1..nfiles
            /\ dpc' = "done"
            /\ UNCHANGED <<pool_tasks, exported_files, draised>>
       ELSE IF task_id > 0
       THEN IF TaskIdTooLarge(task_id, nfiles)
            THEN /\ draised' = "ValueError"
                 /\ dpc' = "done"
                 /\ UNCHANGED <<pool_tasks, exported_files,
                                export_run_scripts, export_submit_script>>
            ELSE /\ exported_files' =
                      [exported_files EXCEPT ![task_id] = @ + 1]
                 /\ dpc' = "done"
                 /\ UNCHANGED <<pool_tasks, draised, export_run_scripts,
                                export_submit_script>>
       ELSE /\ pool_tasks' = 1..nfiles
            /\ dpc' = "pool"
            /\ UNCHANGED <<exported_files, draised, export_run_scripts,
                           export_submit_script>>
    /\ UNCHANGED <<nfiles, task_id, export_slurm>>
    /\ UNCHANGED notDispatch

\* a worker of the pool takes one queued task and runs export_hits_single
PoolExportHitsSingle ==
    /\ dpc = "pool"
    /\ \E index \in pool_tasks :
          /\ pool_tasks' = pool_tasks \ {index}
          /\ exported_files' = [exported_files EXCEPT ![index] = @ + 1]
    /\ UNCHANGED <<nfiles, task_id, export_slurm, export_run_scripts,
                   export_submit_script, dpc, draised>>
    /\ UNCHANGED notDispatch

\* starmap returns when every task has run; the pool is closed
PoolJoin ==
    /\ dpc = "pool" /\ pool_tasks = {}
    /\ dpc' = "done"
    /\ UNCHANGED <<nfiles, task_id, export_slurm, pool_tasks,
                   exported_files, export_run_scripts,
                   export_submit_script, draised>>
    /\ UNCHANGED notDispatch

DispatchNext ==
    \/ ExportHits
    \/ PoolExportHitsSingle
    \/ PoolJoin

\* the files export_hits_single has run for
ExportedFiles == {i \in FileNumbers : exported_files[i] > 0}

C27_IndexCheckedBeforeAnythingElse ==
    /\ hpc \in {"start", "check"} => (size = 0 /\ ~pdf)
    /\ hraised = "TypeError" => (size = 0 /\ ~pdf)

\* the k-th bin with a reference total > 0, in the order of the histogram
KeptBin(k) ==
    CHOOSE i \in KeptBins : Cardinality({j \in KeptBins : j < i}) = k - 1

\* C28: every emitted (bin_center, bin_half_width) pair describes the bin
\* whose efficiency it accompanies: the k-th center is the midpoint of the
\* two edges of the k-th kept bin and the k-th half-width is half that
\* bin's width, also when the kept bins are not contiguous.
C28_CentersDescribeKeptBins ==
    rpc = "done" =>
        \A k \in 1..Len(reference_efficiency) :
            LET low == reference_eff_total.edges[KeptBin(k)]
                high == reference_eff_total.edges[KeptBin(k) + 1]
            IN  /\ 2 * bin_centers[k] = low + high
                /\ 2 * bin_errors[k] = high - low

\* C29: the sentinel-stripping step removes only sentinel rows: every
\* stored row whose geometry_id is neither geometry_id_start nor
\* geometry_id_end is still present after the preprocessing, whatever the
\* index labels of the stored table are.
C29_OnlySentinelRowsRemoved ==
    ipc \in {"convert", "done", "failed"} =>
        \A r \in 1..Len(store) :
            ~IsSentinel(store[r].geometry_id) =>
                \E q \in 1..Len(data) :
                    /\ data[q].lxq = store[r].lxq
                    /\ data[q].geometry_id = store[r].geometry_id
                    /\ data[q].label = store[r].label

(***************************************************************************)
(* The lx and ly columns of the start-vertex rows.                         *)
(***************************************************************************)
MaxVertices == 3

\* the production vertices of the batch: vx one of the two presets, vz one
\* of the presets or 0 (no smearing of the vertex along z)
StartVertexRows ==
    [vx : {AllVals[1], AllVals[7]}, vz : {Zero, AllVals[3], AllVals[9]}]

\* a float32 column element: a number or NaN
Number(x) == [nan |-> FALSE, value |-> x]

NaN == [nan |-> TRUE, value |-> Zero]

\* line 74 for the whole column: tz / tz.abs().max() * 50, where the
\* division 0 / 0 of a batch with every tz = 0 is NaN
StartVertexLyColumn(rows) ==
    [r \in 1..Len(rows) |->
        IF MaxAbsTz(rows).bits = <<>> THEN NaN
        ELSE Number(StartVertexLy(rows[r].vz, MaxAbsTz(rows)))]

VertexIdle ==
    /\ start_vertices = <<>> /\ vertex_lx = <<>> /\ vertex_ly = <<>>
    /\ vpc = "idle"

VertexInit ==
    /\ start_vertices \in
         UNION {[1..n -> StartVertexRows] : n \in 1..MaxVertices}
    /\ vertex_lx = <<>> /\ vertex_ly = <<>>
    /\ vpc = "start"

\* lines 73-74: lx and ly of the start-vertex rows
StartVertexLocalCoordinates ==
    /\ vpc = "start"
    /\ vertex_lx' = [r \in 1..Len(start_vertices) |-> start_vertices[r].vx]
    /\ vertex_ly' = StartVertexLyColumn(start_vertices)
    /\ vpc' = "done"
    /\ UNCHANGED start_vertices
    /\ UNCHANGED notVertex

VertexNext == StartVertexLocalCoordinates

\* C30: for every start-vertex row lx equals the vertex tx, and
\* ly = tz / max|tz| * 50 is a defined value in [-50, 50], for every batch
\* of particles, a batch whose production vertices all have vz = 0
\* included.
C30_StartVertexLocalDefined ==
    vpc = "done" =>
        \A r \in 1..Len(start_vertices) :
            /\ vertex_lx[r] = start_vertices[r].vx
            /\ ~vertex_ly[r].nan
            /\ ~FlMagLess(FlOfInt(50), vertex_ly[r].value)

(***************************************************************************)
(* Specifications.                                                         *)
(***************************************************************************)
Init ==
    /\ ExportInit
    /\ QuantIdle /\ ImportIdle /\ HitsIdle
    /\ RecoIdle /\ ResultsIdle /\ TransformIdle
    /\ ConfigIdle /\ ScheduleIdle /\ DispatchIdle
    /\ VertexIdle

Spec == Init /\ [][ExportNext]_vars

InitQuant ==
    /\ QuantInit
    /\ ExportIdle /\ ImportIdle /\ HitsIdle
    /\ RecoIdle /\ ResultsIdle /\ TransformIdle
    /\ ConfigIdle /\ ScheduleIdle /\ DispatchIdle
    /\ VertexIdle

SpecQuant == InitQuant /\ [][QuantNext]_vars

InitOrphan ==
    /\ ExportInitOrphan
    /\ QuantIdle /\ ImportIdle /\ HitsIdle
    /\ RecoIdle /\ ResultsIdle /\ TransformIdle
    /\ ConfigIdle /\ ScheduleIdle /\ DispatchIdle
    /\ VertexIdle

SpecOrphan == InitOrphan /\ [][ExportNext]_vars

InitBatch ==
    /\ ExportInitBatch
    /\ QuantIdle /\ ImportIdle /\ HitsIdle
    /\ RecoIdle /\ ResultsIdle /\ TransformIdle
    /\ ConfigIdle /\ ScheduleIdle /\ DispatchIdle
    /\ VertexIdle

SpecBatch == InitBatch /\ [][ExportNext]_vars

InitImport ==
    /\ ImportInit
    /\ QuantIdle /\ ExportIdle /\ HitsIdle
    /\ RecoIdle /\ ResultsIdle /\ TransformIdle
    /\ ConfigIdle /\ ScheduleIdle /\ DispatchIdle
    /\ VertexIdle

SpecImport == InitImport /\ [][ImportNext]_vars

InitResults ==
    /\ ResultsInit
    /\ QuantIdle /\ ExportIdle /\ ImportIdle
    /\ HitsIdle /\ RecoIdle /\ TransformIdle
    /\ ConfigIdle /\ ScheduleIdle /\ DispatchIdle
    /\ VertexIdle

SpecResults == InitResults /\ [][ResultsNext]_vars

InitTransform ==
    /\ TransformInit
    /\ QuantIdle /\ ExportIdle /\ ImportIdle
    /\ HitsIdle /\ RecoIdle /\ ResultsIdle
    /\ ConfigIdle /\ ScheduleIdle /\ DispatchIdle
    /\ VertexIdle

SpecTransform == InitTransform /\ [][TransformNext]_vars

InitHits ==
    /\ HitsInit
    /\ QuantIdle /\ ExportIdle /\ ImportIdle
    /\ RecoIdle /\ ResultsIdle /\ TransformIdle
    /\ ConfigIdle /\ ScheduleIdle /\ DispatchIdle
    /\ VertexIdle

SpecHits == InitHits /\ [][HitsNext]_vars

InitReco ==
    /\ RecoInit
    /\ QuantIdle /\ ExportIdle /\ ImportIdle
    /\ HitsIdle /\ ResultsIdle /\ TransformIdle
    /\ ConfigIdle /\ ScheduleIdle /\ DispatchIdle
    /\ VertexIdle

SpecReco == InitReco /\ [][RecoNext]_vars

InitConfig ==
    /\ ConfigInit
    /\ QuantIdle /\ ExportIdle /\ ImportIdle
    /\ HitsIdle /\ RecoIdle /\ ResultsIdle
    /\ TransformIdle /\ ScheduleIdle /\ DispatchIdle
    /\ VertexIdle

SpecConfig == InitConfig /\ [][ConfigNext]_vars

InitSchedule ==
    /\ ScheduleInit
    /\ QuantIdle /\ ExportIdle /\ ImportIdle
    /\ HitsIdle /\ RecoIdle /\ ResultsIdle
    /\ TransformIdle /\ ConfigIdle /\ DispatchIdle
    /\ VertexIdle

SpecSchedule == InitSchedule /\ [][ScheduleNext]_vars

InitDispatch ==
    /\ DispatchInit
    /\ QuantIdle /\ ExportIdle /\ ImportIdle
    /\ HitsIdle /\ RecoIdle /\ ResultsIdle
    /\ TransformIdle /\ ConfigIdle /\ ScheduleIdle
    /\ VertexIdle

SpecDispatch == InitDispatch /\ [][DispatchNext]_vars

InitVertex ==
    /\ VertexInit
    /\ QuantIdle /\ ExportIdle /\ ImportIdle
    /\ HitsIdle /\ RecoIdle /\ ResultsIdle
    /\ TransformIdle /\ ConfigIdle /\ ScheduleIdle
    /\ DispatchIdle

SpecVertex == InitVertex /\ [][VertexNext]_vars

====
